---- MODULE Spec2Model ----
(***************************************************************************)
(* ConfidentialPatentLicense: the confidential licensing ledger of         *)
(* examples/patent-license (the Solidity contract reproduced in the        *)
(* example's README.md), as a state machine.                               *)
(*                                                                         *)
(* One action per external function of the contract.  A call whose        *)
(* require(...) fails reverts: the whole ledger state is left as it was   *)
(* and only the outcome of the call (last) is recorded.  The FHE library   *)
(* is modelled as a store of ciphertexts (plain: handle -> plaintext), an  *)
(* access-control list (acl: the (handle, principal) disclosure grants)    *)
(* and a queue of decryption requests.                                     *)
(***************************************************************************)
EXTENDS Integers, Sequences, FiniteSets, TLC

VARIABLES
    owner,            \* address public owner
    nextPatentId,     \* uint256 public nextPatentId
    nextLicenseId,    \* uint256 public nextLicenseId
    patents,          \* mapping(uint256 => PatentInfo)
    licenses,         \* mapping(uint256 => LicenseAgreement)
    royaltyPayments,  \* mapping(uint256 => RoyaltyPayment[])
    confidentialBids, \* mapping(uint256 => mapping(address => euint64))
    bidders,          \* mapping(uint256 => address[])
    biddingOpen,      \* mapping(uint256 => bool)
    biddingEndTime,   \* mapping(uint256 => uint256)
    plain,            \* FHE store: plain[h] is the plaintext behind handle h
    acl,              \* FHE access control: set of <<handle, principal>>
    requests,         \* FHE decryption requests, in the order they were issued
    now,              \* block.timestamp
    last              \* outcome of the last call: [op, sender, id, err]

ledger == <<owner, nextPatentId, nextLicenseId, patents, licenses, royaltyPayments,
            confidentialBids, bidders, biddingOpen, biddingEndTime, plain, acl,
            requests>>

vars == <<owner, nextPatentId, nextLicenseId, patents, licenses, royaltyPayments,
          confidentialBids, bidders, biddingOpen, biddingEndTime, plain, acl,
          requests, now, last>>

----------------------------------------------------------------------------
(* Bounds of the model. *)

MaxPatents == 1      \* patents registered in one run
MaxLicenses == 2     \* licenses created in one run
MaxRoyLicenses == 1  \* licenses created in one run of SpecRoyalty
MaxPayments == 2     \* royalty payments recorded for one license
MaxHandles == 9      \* ciphertexts created in one run of Spec
MaxBids == 3         \* bids accepted in one run of SpecAuction
MaxRequests == 2     \* decryption requests issued in one run
MaxVerRequests == 2  \* decryption requests issued in one run of SpecVerify
MaxHours == 1        \* hours the clock advances in one run
MaxReopenHours == 2  \* hours the clock advances in one run of SpecReopen
MaxExpYears == 1     \* years the clock advances in one run of SpecExpiry
MaxIdPatents == 2    \* patents registered in one run of SpecIds
MaxIdLicenses == 3   \* licenses created in one run of SpecIds

----------------------------------------------------------------------------
(* Principals and units. *)

ZeroAddress == "0x0"          \* address(0)
This == "this"                \* address(this), the ledger itself
Deployer == "deployer"        \* msg.sender of the constructor
Users == {"alice", "bob", "carol", "dave"}
Addresses == {ZeroAddress, Deployer} \cup Users

PatentIds == 0 .. MaxPatents
LicenseIds == 0 .. MaxLicenses

Hour == 60 * 60               \* 1 hours
Day == 24 * Hour              \* 1 days
Year == 365 * Day             \* 365 days

WordBits == 24                \* width of the model's machine word (see UintMax)
UintMax == 2 ^ WordBits - 1   \* type(uint64).max, narrowed to WordBits bits

OK == "ok"

\* require(cond, msg)
Require(cond, msg) == IF cond THEN OK ELSE msg

\* the first require that fails, in the order the code evaluates them
FirstError(errs) ==
    IF \E i \in 1 .. Len(errs) : errs[i] # OK
    THEN errs[CHOOSE i \in 1 .. Len(errs) :
                  errs[i] # OK /\ \A j \in 1 .. (i - 1) : errs[j] = OK]
    ELSE OK

\* a reverted call: no state change
Revert(op, sender, id, err) ==
    /\ last' = [op |-> op, sender |-> sender, id |-> id, err |-> err]
    /\ UNCHANGED <<ledger, now>>

Done(op, sender, id) == [op |-> op, sender |-> sender, id |-> id, err |-> OK]

----------------------------------------------------------------------------
(* Storage defaults: a Solidity mapping reads as zero where nothing was    *)
(* written.                                                               *)

PatentStatus == <<"Active", "Suspended", "Expired">>
LicenseStatus == <<"Pending", "Active", "Suspended", "Expired", "Revoked">>

ZeroPatent ==
    [patentOwner |-> ZeroAddress, encryptedRoyaltyRate |-> 0,
     encryptedMinLicenseFee |-> 0, encryptedExclusivityPeriod |-> 0,
     registrationTime |-> 0, expirationTime |-> 0, status |-> PatentStatus[1],
     isConfidential |-> FALSE, patentHash |-> "", territoryCode |-> 0]

ZeroLicense ==
    [patentId |-> 0, licensee |-> ZeroAddress, licensor |-> ZeroAddress,
     encryptedLicenseFee |-> 0, encryptedRoyaltyRate |-> 0,
     encryptedRevenueCap |-> 0, startTime |-> 0, endTime |-> 0,
     status |-> LicenseStatus[1], isExclusive |-> FALSE, autoRenewal |-> FALSE,
     encryptedTerritoryMask |-> 0]

\* FHE.asEuintXX(v): the handle of the k-th ciphertext created by this call
NewHandle(k) == Len(plain) + k

\* FHE.allowThis(h) / FHE.allow(h, who) for each h in hs
Allow(hs, who) == {<<h, who>> : h \in hs}

----------------------------------------------------------------------------
(* constructor *)

Init ==
    /\ owner = Deployer
    /\ nextPatentId = 1
    /\ nextLicenseId = 1
    /\ patents = [p \in PatentIds |-> ZeroPatent]
    /\ licenses = [l \in LicenseIds |-> ZeroLicense]
    /\ royaltyPayments = [l \in LicenseIds |-> <<>>]
    /\ confidentialBids = [p \in PatentIds |-> [a \in Addresses |-> 0]]
    /\ bidders = [p \in PatentIds |-> <<>>]
    /\ biddingOpen = [p \in PatentIds |-> FALSE]
    /\ biddingEndTime = [p \in PatentIds |-> 0]
    /\ plain = <<>>
    /\ acl = {}
    /\ requests = <<>>
    /\ now = Day
    /\ last = Done("constructor", Deployer, 0)

----------------------------------------------------------------------------
(* Modifiers *)

onlyOwner(sender) == Require(sender = owner, "Not authorized")

onlyPatentOwner(sender, patentId) ==
    Require(patents[patentId].patentOwner = sender, "Not patent owner")

\* faulty variant: the status of the patent is not looked at
validPatentAnyStatus(patentId) == Require(patentId < nextPatentId, "Invalid patent ID")

validPatent(patentId) ==
    FirstError(<<Require(patentId < nextPatentId, "Invalid patent ID"),
                 Require(patents[patentId].status = "Active", "Patent not active")>>)

validLicense(licenseId) == Require(licenseId < nextLicenseId, "Invalid license ID")

----------------------------------------------------------------------------
(* registerPatent *)

\* faulty variant: the validity period has no upper limit
registerPatentErrorNoUpperValidity(royaltyRate, validityYears) ==
    FirstError(<<Require(royaltyRate <= 10000, "Royalty rate too high"),
                 Require(validityYears > 0, "Invalid validity period")>>)

registerPatentError(royaltyRate, validityYears) ==
    FirstError(<<Require(royaltyRate <= 10000, "Royalty rate too high"),
                 Require(validityYears > 0 /\ validityYears <= 20,
                         "Invalid validity period")>>)

\* faulty variant: the owner is granted disclosure of a confidential patent too
registerPatentGrantsAlways(isConfidential, sender, hs) ==
    Allow(hs, This) \cup Allow(hs, sender)

registerPatentGrants(isConfidential, sender, hs) ==
    Allow(hs, This) \cup (IF ~isConfidential THEN Allow(hs, sender) ELSE {})

registerPatent(sender, royaltyRate, minLicenseFee, exclusivityPeriod, validityYears, patentHash, territoryCode, isConfidential) ==
    LET err == registerPatentError(royaltyRate, validityYears)
        patentId == nextPatentId
    IN  IF err # OK THEN Revert("registerPatent", sender, patentId, err)
        ELSE
        /\ nextPatentId' = nextPatentId + 1
        /\ plain' = plain \o <<royaltyRate, minLicenseFee, exclusivityPeriod>>
        /\ patents' = [patents EXCEPT ![patentId] =
              [patentOwner |-> sender,
               encryptedRoyaltyRate |-> NewHandle(1),
               encryptedMinLicenseFee |-> NewHandle(2),
               encryptedExclusivityPeriod |-> NewHandle(3),
               registrationTime |-> now,
               expirationTime |-> now + validityYears * Year,
               status |-> "Active",
               isConfidential |-> isConfidential,
               patentHash |-> patentHash,
               territoryCode |-> territoryCode]]
        /\ acl' = acl \cup registerPatentGrants(isConfidential, sender,
                                                {NewHandle(1), NewHandle(2), NewHandle(3)})
        /\ last' = Done("registerPatent", sender, patentId)
        /\ UNCHANGED <<owner, nextLicenseId, licenses, royaltyPayments, confidentialBids,
                       bidders, biddingOpen, biddingEndTime, requests, now>>

----------------------------------------------------------------------------
(* requestLicense, _createLicenseAgreement, _setLicenseFHEPermissions *)

\* faulty variant: the duration is not looked at
requestLicenseErrorAnyDuration(patentId, durationDays, proposedRoyaltyRate) ==
    FirstError(<<validPatent(patentId),
                 Require(proposedRoyaltyRate <= 10000, "Invalid royalty rate")>>)

requestLicenseError(patentId, durationDays, proposedRoyaltyRate) ==
    FirstError(<<validPatent(patentId),
                 Require(durationDays > 0, "Invalid duration"),
                 Require(proposedRoyaltyRate <= 10000, "Invalid royalty rate")>>)

\* _setLicenseFHEPermissions: allowThis on all four, allow on fee and royalty
setLicenseFHEPermissions(sender, encryptedFee, encryptedRoyalty, encryptedRevenueCap, encryptedTerritory, patentOwner) ==
    Allow({encryptedFee, encryptedRoyalty, encryptedRevenueCap, encryptedTerritory}, This)
    \cup Allow({encryptedFee, encryptedRoyalty}, sender)
    \cup Allow({encryptedFee, encryptedRoyalty}, patentOwner)

requestLicense(sender, patentId, proposedFee, proposedRoyaltyRate, revenueCap, durationDays, requestExclusive, autoRenewal, territoryMask) ==
    LET err == requestLicenseError(patentId, durationDays, proposedRoyaltyRate)
        licenseId == nextLicenseId
        patentOwner == patents[patentId].patentOwner
    IN  IF err # OK THEN Revert("requestLicense", sender, patentId, err)
        ELSE
        /\ nextLicenseId' = nextLicenseId + 1
        /\ plain' = plain \o <<proposedFee, proposedRoyaltyRate, revenueCap, territoryMask>>
        /\ licenses' = [licenses EXCEPT ![licenseId] =
              [patentId |-> patentId,
               licensee |-> sender,
               licensor |-> patentOwner,
               encryptedLicenseFee |-> NewHandle(1),
               encryptedRoyaltyRate |-> NewHandle(2),
               encryptedRevenueCap |-> NewHandle(3),
               startTime |-> 0,
               endTime |-> 0,
               status |-> "Pending",
               isExclusive |-> requestExclusive,
               autoRenewal |-> autoRenewal,
               encryptedTerritoryMask |-> NewHandle(4)]]
        /\ acl' = acl \cup setLicenseFHEPermissions(sender, NewHandle(1), NewHandle(2),
                                                    NewHandle(3), NewHandle(4), patentOwner)
        /\ last' = Done("requestLicense", sender, patentId)
        /\ UNCHANGED <<owner, nextPatentId, patents, royaltyPayments, confidentialBids,
                       bidders, biddingOpen, biddingEndTime, requests, now>>

----------------------------------------------------------------------------
(* approveLicense *)

\* faulty variant: the status of the license is not looked at
approveLicenseErrorAnyStatus(sender, licenseId) ==
    FirstError(<<validLicense(licenseId),
                 Require(licenses[licenseId].licensor = sender, "Not the licensor")>>)

approveLicenseError(sender, licenseId) ==
    FirstError(<<validLicense(licenseId),
                 Require(licenses[licenseId].licensor = sender, "Not the licensor"),
                 Require(licenses[licenseId].status = "Pending", "License not pending")>>)

\* faulty variant: the approval also clears the exclusivity of the license
approveLicenseClearsExclusive(sender, licenseId, durationDays) ==
    LET err == approveLicenseError(sender, licenseId)
    IN  IF err # OK THEN Revert("approveLicense", sender, licenseId, err)
        ELSE
        /\ licenses' = [licenses EXCEPT ![licenseId].status = "Active",
                                        ![licenseId].startTime = now,
                                        ![licenseId].endTime = now + durationDays * Day,
                                        ![licenseId].isExclusive = FALSE]
        /\ last' = Done("approveLicense", sender, licenseId)
        /\ UNCHANGED <<owner, nextPatentId, nextLicenseId, patents, royaltyPayments,
                       confidentialBids, bidders, biddingOpen, biddingEndTime, plain, acl,
                       requests, now>>

approveLicense(sender, licenseId, durationDays) ==
    LET err == approveLicenseError(sender, licenseId)
    IN  IF err # OK THEN Revert("approveLicense", sender, licenseId, err)
        ELSE
        /\ licenses' = [licenses EXCEPT ![licenseId].status = "Active",
                                        ![licenseId].startTime = now,
                                        ![licenseId].endTime = now + durationDays * Day]
        /\ last' = Done("approveLicense", sender, licenseId)
        /\ UNCHANGED <<owner, nextPatentId, nextLicenseId, patents, royaltyPayments,
                       confidentialBids, bidders, biddingOpen, biddingEndTime, plain, acl,
                       requests, now>>

----------------------------------------------------------------------------
(* updatePatentStatus, updateLicenseStatus, emergencyPause, emergencyResume *)

\* faulty variant: the onlyPatentOwner modifier is missing
updatePatentStatusErrorAnyone(sender, patentId) == OK

updatePatentStatusError(sender, patentId) == onlyPatentOwner(sender, patentId)

updatePatentStatus(sender, patentId, newStatus) ==
    LET err == updatePatentStatusError(sender, patentId)
    IN  IF err # OK THEN Revert("updatePatentStatus", sender, patentId, err)
        ELSE
        /\ patents' = [patents EXCEPT ![patentId].status = newStatus]
        /\ last' = Done("updatePatentStatus", sender, patentId)
        /\ UNCHANGED <<owner, nextPatentId, nextLicenseId, licenses, royaltyPayments,
                       confidentialBids, bidders, biddingOpen, biddingEndTime, plain, acl,
                       requests, now>>

updateLicenseStatusError(sender, licenseId) ==
    FirstError(<<validLicense(licenseId),
                 Require(licenses[licenseId].licensor = sender, "Not the licensor")>>)

updateLicenseStatus(sender, licenseId, newStatus) ==
    LET err == updateLicenseStatusError(sender, licenseId)
    IN  IF err # OK THEN Revert("updateLicenseStatus", sender, licenseId, err)
        ELSE
        /\ licenses' = [licenses EXCEPT ![licenseId].status = newStatus]
        /\ last' = Done("updateLicenseStatus", sender, licenseId)
        /\ UNCHANGED <<owner, nextPatentId, nextLicenseId, patents, royaltyPayments,
                       confidentialBids, bidders, biddingOpen, biddingEndTime, plain, acl,
                       requests, now>>

\* faulty variant: the onlyOwner modifier is missing
emergencyErrorAnyone(sender) == OK

emergencyError(sender) == onlyOwner(sender)

emergencyPause(sender, patentId) ==
    LET err == emergencyError(sender)
    IN  IF err # OK THEN Revert("emergencyPause", sender, patentId, err)
        ELSE
        /\ patents' = [patents EXCEPT ![patentId].status = "Suspended"]
        /\ last' = Done("emergencyPause", sender, patentId)
        /\ UNCHANGED <<owner, nextPatentId, nextLicenseId, licenses, royaltyPayments,
                       confidentialBids, bidders, biddingOpen, biddingEndTime, plain, acl,
                       requests, now>>

emergencyResume(sender, patentId) ==
    LET err == emergencyError(sender)
    IN  IF err # OK THEN Revert("emergencyResume", sender, patentId, err)
        ELSE
        /\ patents' = [patents EXCEPT ![patentId].status = "Active"]
        /\ last' = Done("emergencyResume", sender, patentId)
        /\ UNCHANGED <<owner, nextPatentId, nextLicenseId, licenses, royaltyPayments,
                       confidentialBids, bidders, biddingOpen, biddingEndTime, plain, acl,
                       requests, now>>

----------------------------------------------------------------------------
(* startConfidentialBidding, submitConfidentialBid, finalizeBidding *)

\* faulty variant: an auction whose deadline has passed may be opened again
startConfidentialBiddingErrorReopen(sender, patentId, biddingDurationHours) ==
    FirstError(<<onlyPatentOwner(sender, patentId),
                 Require(~biddingOpen[patentId] \/ now >= biddingEndTime[patentId],
                         "Bidding already open"),
                 Require(biddingDurationHours > 0 /\ biddingDurationHours <= 168,
                         "Invalid duration")>>)

startConfidentialBiddingError(sender, patentId, biddingDurationHours) ==
    FirstError(<<onlyPatentOwner(sender, patentId),
                 Require(~biddingOpen[patentId], "Bidding already open"),
                 Require(biddingDurationHours > 0 /\ biddingDurationHours <= 168,
                         "Invalid duration")>>)

startConfidentialBidding(sender, patentId, biddingDurationHours) ==
    LET err == startConfidentialBiddingError(sender, patentId, biddingDurationHours)
    IN  IF err # OK THEN Revert("startConfidentialBidding", sender, patentId, err)
        ELSE
        /\ biddingOpen' = [biddingOpen EXCEPT ![patentId] = TRUE]
        /\ biddingEndTime' = [biddingEndTime EXCEPT
                                 ![patentId] = now + biddingDurationHours * Hour]
        /\ last' = Done("startConfidentialBidding", sender, patentId)
        /\ UNCHANGED <<owner, nextPatentId, nextLicenseId, patents, licenses,
                       royaltyPayments, confidentialBids, bidders, plain, acl, requests,
                       now>>

\* faulty variant: the deadline is not looked at
submitConfidentialBidErrorNoDeadline(patentId, bidAmount) ==
    FirstError(<<validPatent(patentId),
                 Require(biddingOpen[patentId], "Bidding not open"),
                 Require(bidAmount > 0, "Invalid bid amount")>>)

submitConfidentialBidError(patentId, bidAmount) ==
    FirstError(<<validPatent(patentId),
                 Require(biddingOpen[patentId], "Bidding not open"),
                 Require(now < biddingEndTime[patentId], "Bidding ended"),
                 Require(bidAmount > 0, "Invalid bid amount")>>)

\* faulty variant: the list is not searched, every bid is taken for a first bid
isFirstBidAlways(sender, patentId) ==
    TRUE

\* the loop over bidders[patentId]: TRUE iff msg.sender is not in the list yet
isFirstBid(sender, patentId) ==
    \A i \in 1 .. Len(bidders[patentId]) : bidders[patentId][i] # sender

submitConfidentialBid(sender, patentId, bidAmount) ==
    LET err == submitConfidentialBidError(patentId, bidAmount)
        encryptedBid == NewHandle(1)
    IN  IF err # OK THEN Revert("submitConfidentialBid", sender, patentId, err)
        ELSE
        /\ bidders' = IF isFirstBid(sender, patentId)
                      THEN [bidders EXCEPT ![patentId] = Append(@, sender)]
                      ELSE bidders
        /\ plain' = Append(plain, bidAmount)
        /\ confidentialBids' = [confidentialBids EXCEPT ![patentId][sender] = encryptedBid]
        /\ acl' = acl \cup Allow({encryptedBid}, This) \cup Allow({encryptedBid}, sender)
                      \cup Allow({encryptedBid}, patents[patentId].patentOwner)
        /\ last' = Done("submitConfidentialBid", sender, patentId)
        /\ UNCHANGED <<owner, nextPatentId, nextLicenseId, patents, licenses,
                       royaltyPayments, biddingOpen, biddingEndTime, requests, now>>

\* faulty variant: the patent owner is returned in place of a bidder
findHighestBidderOwner(patentId) ==
    IF Len(bidders[patentId]) = 0 THEN ZeroAddress ELSE patents[patentId].patentOwner

\* faulty variant: an auction without bidders is awarded to the patent owner
findHighestBidderNeverNone(patentId) ==
    IF Len(bidders[patentId]) = 0 THEN patents[patentId].patentOwner
    ELSE bidders[patentId][1]

\* _findHighestBidder: "return the first bidder as a placeholder"
findHighestBidder(patentId) ==
    IF Len(bidders[patentId]) = 0 THEN ZeroAddress ELSE bidders[patentId][1]

finalizeBiddingError(sender, patentId) ==
    FirstError(<<onlyPatentOwner(sender, patentId),
                 Require(biddingOpen[patentId], "Bidding not open"),
                 Require(now >= biddingEndTime[patentId], "Bidding still active")>>)

\* faulty variant: the license counter is not advanced by an award
finalizeBiddingKeepsCounter(sender, patentId) ==
    LET err == finalizeBiddingError(sender, patentId)
        winner == findHighestBidder(patentId)
        licenseId == nextLicenseId
    IN  IF err # OK THEN Revert("finalizeBidding", sender, patentId, err)
        ELSE
        /\ biddingOpen' = [biddingOpen EXCEPT ![patentId] = FALSE]
        /\ IF winner # ZeroAddress
           THEN /\ plain' = plain \o <<0, 255>>
                /\ licenses' = [licenses EXCEPT ![licenseId] =
                      [patentId |-> patentId,
                       licensee |-> winner,
                       licensor |-> sender,
                       encryptedLicenseFee |-> confidentialBids[patentId][winner],
                       encryptedRoyaltyRate |-> patents[patentId].encryptedRoyaltyRate,
                       encryptedRevenueCap |-> NewHandle(1),
                       startTime |-> now,
                       endTime |-> now + Year,
                       status |-> "Active",
                       isExclusive |-> TRUE,
                       autoRenewal |-> FALSE,
                       encryptedTerritoryMask |-> NewHandle(2)]]
           ELSE UNCHANGED <<plain, licenses>>
        /\ last' = Done("finalizeBidding", sender, patentId)
        /\ UNCHANGED <<owner, nextPatentId, nextLicenseId, patents, royaltyPayments,
                       confidentialBids, bidders, biddingEndTime, acl, requests, now>>

finalizeBidding(sender, patentId) ==
    LET err == finalizeBiddingError(sender, patentId)
        winner == findHighestBidder(patentId)
        licenseId == nextLicenseId
    IN  IF err # OK THEN Revert("finalizeBidding", sender, patentId, err)
        ELSE
        /\ biddingOpen' = [biddingOpen EXCEPT ![patentId] = FALSE]
        /\ IF winner # ZeroAddress
           THEN /\ nextLicenseId' = nextLicenseId + 1
                /\ plain' = plain \o <<0, 255>>
                /\ licenses' = [licenses EXCEPT ![licenseId] =
                      [patentId |-> patentId,
                       licensee |-> winner,
                       licensor |-> sender,
                       encryptedLicenseFee |-> confidentialBids[patentId][winner],
                       encryptedRoyaltyRate |-> patents[patentId].encryptedRoyaltyRate,
                       encryptedRevenueCap |-> NewHandle(1),
                       startTime |-> now,
                       endTime |-> now + Year,
                       status |-> "Active",
                       isExclusive |-> TRUE,
                       autoRenewal |-> FALSE,
                       encryptedTerritoryMask |-> NewHandle(2)]]
           ELSE UNCHANGED <<nextLicenseId, plain, licenses>>
        /\ last' = Done("finalizeBidding", sender, patentId)
        /\ UNCHANGED <<owner, nextPatentId, patents, royaltyPayments, confidentialBids,
                       bidders, biddingEndTime, acl, requests, now>>

----------------------------------------------------------------------------
(* payRoyalties, requestRoyaltyVerification, processRoyaltyVerification *)

\* uint64(x)
ToUint64(x) == x % (UintMax + 1)

\* checked arithmetic of Solidity ^0.8: a * b does not fit the word
MulOverflows(a, b) == a # 0 /\ b > UintMax \div a

\* accepted: whether the licensor's address accepts the transfer of msg.value
payRoyaltiesError(sender, licenseId, accepted) ==
    FirstError(<<validLicense(licenseId),
                 Require(licenses[licenseId].licensee = sender, "Not the licensee"),
                 Require(licenses[licenseId].status = "Active", "License not active"),
                 Require(accepted, "Transfer failed")>>)

\* faulty variant: the new ciphertexts are disclosed to the licensee, not the licensor
payRoyaltiesEffectGrantsLicensee(sender, licenseId, reportedRevenue, reportingPeriod, value) ==
    LET encryptedRevenue == NewHandle(1)
        encryptedPayment == NewHandle(2)
    IN  /\ plain' = plain \o <<reportedRevenue, ToUint64(value)>>
        /\ royaltyPayments' = [royaltyPayments EXCEPT ![licenseId] = Append(@,
              [licenseId |-> licenseId,
               encryptedAmount |-> encryptedPayment,
               encryptedRevenue |-> encryptedRevenue,
               paymentTime |-> now,
               reportingPeriod |-> reportingPeriod,
               isVerified |-> FALSE])]
        /\ acl' = acl \cup Allow({encryptedRevenue, encryptedPayment}, This)
                      \cup Allow({encryptedRevenue, encryptedPayment},
                                 licenses[licenseId].licensee)
        /\ UNCHANGED <<owner, nextPatentId, nextLicenseId, patents, licenses,
                       confidentialBids, bidders, biddingOpen, biddingEndTime, requests,
                       now>>

\* the body of payRoyalties after its require(...)s
payRoyaltiesEffect(sender, licenseId, reportedRevenue, reportingPeriod, value) ==
    LET encryptedRevenue == NewHandle(1)
        encryptedPayment == NewHandle(2)
    IN  /\ plain' = plain \o <<reportedRevenue, ToUint64(value)>>
        /\ royaltyPayments' = [royaltyPayments EXCEPT ![licenseId] = Append(@,
              [licenseId |-> licenseId,
               encryptedAmount |-> encryptedPayment,
               encryptedRevenue |-> encryptedRevenue,
               paymentTime |-> now,
               reportingPeriod |-> reportingPeriod,
               isVerified |-> FALSE])]
        /\ acl' = acl \cup Allow({encryptedRevenue, encryptedPayment}, This)
                      \cup Allow({encryptedRevenue, encryptedPayment},
                                 licenses[licenseId].licensor)
        /\ UNCHANGED <<owner, nextPatentId, nextLicenseId, patents, licenses,
                       confidentialBids, bidders, biddingOpen, biddingEndTime, requests,
                       now>>

\* faulty variant: the payment record is kept when the transfer to the licensor fails
payRoyaltiesNoRollback(sender, licenseId, reportedRevenue, reportingPeriod, value, accepted) ==
    LET err == payRoyaltiesError(sender, licenseId, accepted)
    IN  IF err # OK /\ err # "Transfer failed"
        THEN Revert("payRoyalties", sender, licenseId, err)
        ELSE /\ payRoyaltiesEffect(sender, licenseId, reportedRevenue, reportingPeriod,
                                   value)
             /\ last' = [op |-> "payRoyalties", sender |-> sender, id |-> licenseId,
                         err |-> err]

payRoyalties(sender, licenseId, reportedRevenue, reportingPeriod, value, accepted) ==
    LET err == payRoyaltiesError(sender, licenseId, accepted)
    IN  IF err # OK THEN Revert("payRoyalties", sender, licenseId, err)
        ELSE /\ payRoyaltiesEffect(sender, licenseId, reportedRevenue, reportingPeriod,
                                   value)
             /\ last' = Done("payRoyalties", sender, licenseId)

\* paymentIndex counts from 0, as in the contract
requestRoyaltyVerificationError(sender, licenseId, paymentIndex) ==
    IF validLicense(licenseId) # OK THEN validLicense(licenseId)
    ELSE IF licenses[licenseId].licensor # sender THEN "Not the licensor"
    ELSE IF ~(paymentIndex < Len(royaltyPayments[licenseId])) THEN "Invalid payment index"
    ELSE IF royaltyPayments[licenseId][paymentIndex + 1].isVerified THEN "Already verified"
    ELSE OK

\* faulty variant: the payment is marked verified as soon as verification is requested
requestRoyaltyVerificationOptimistic(sender, licenseId, paymentIndex) ==
    LET err == requestRoyaltyVerificationError(sender, licenseId, paymentIndex)
        payment == royaltyPayments[licenseId][paymentIndex + 1]
    IN  IF err # OK THEN Revert("requestRoyaltyVerification", sender, licenseId, err)
        ELSE
        /\ requests' = Append(requests,
              [cts |-> <<payment.encryptedRevenue,
                         licenses[licenseId].encryptedRoyaltyRate,
                         payment.encryptedAmount>>,
               fulfilled |-> FALSE])
        /\ royaltyPayments' = [royaltyPayments EXCEPT
                                  ![licenseId][paymentIndex + 1].isVerified = TRUE]
        /\ last' = Done("requestRoyaltyVerification", sender, licenseId)
        /\ UNCHANGED <<owner, nextPatentId, nextLicenseId, patents, licenses,
                       confidentialBids, bidders, biddingOpen, biddingEndTime, plain, acl,
                       now>>

requestRoyaltyVerification(sender, licenseId, paymentIndex) ==
    LET err == requestRoyaltyVerificationError(sender, licenseId, paymentIndex)
        payment == royaltyPayments[licenseId][paymentIndex + 1]
    IN  IF err # OK THEN Revert("requestRoyaltyVerification", sender, licenseId, err)
        ELSE
        /\ requests' = Append(requests,
              [cts |-> <<payment.encryptedRevenue,
                         licenses[licenseId].encryptedRoyaltyRate,
                         payment.encryptedAmount>>,
               fulfilled |-> FALSE])
        /\ last' = Done("requestRoyaltyVerification", sender, licenseId)
        /\ UNCHANGED <<owner, nextPatentId, nextLicenseId, patents, licenses,
                       royaltyPayments, confidentialBids, bidders, biddingOpen,
                       biddingEndTime, plain, acl, now>>

\* uint64 expectedRoyalty = (revenue * royaltyRate) / 10000
expectedRoyalty(revenue, royaltyRate) == (revenue * royaltyRate) \div 10000

\* bool isValid = paidAmount >= (expectedRoyalty * 95) / 100
isValid(revenue, royaltyRate, paidAmount) ==
    paidAmount >= (expectedRoyalty(revenue, royaltyRate) * 95) \div 100

processRoyaltyVerificationError(decryptedValues) ==
    IF ~(Len(decryptedValues) >= 3) THEN "Invalid decrypted values"
    ELSE IF MulOverflows(decryptedValues[1], decryptedValues[2]) THEN "Panic(0x11)"
    ELSE IF MulOverflows(expectedRoyalty(decryptedValues[1], decryptedValues[2]), 95)
         THEN "Panic(0x11)"
    ELSE OK

\* faulty variant: the callback marks every payment recorded so far as verified
processRoyaltyVerificationMarksAll(sender, requestId, decryptedValues) ==
    /\ last' = [op |-> "processRoyaltyVerification", sender |-> sender, id |-> requestId,
                err |-> processRoyaltyVerificationError(decryptedValues)]
    /\ royaltyPayments' =
          [l \in LicenseIds |->
              [i \in 1 .. Len(royaltyPayments[l]) |->
                  [royaltyPayments[l][i] EXCEPT !.isVerified = TRUE]]]
    /\ UNCHANGED <<owner, nextPatentId, nextLicenseId, patents, licenses,
                   confidentialBids, bidders, biddingOpen, biddingEndTime, plain, acl, now>>

\* The callback computes isValid into a local and stores nothing.
processRoyaltyVerification(sender, requestId, decryptedValues) ==
    /\ last' = [op |-> "processRoyaltyVerification", sender |-> sender, id |-> requestId,
                err |-> processRoyaltyVerificationError(decryptedValues)]
    /\ UNCHANGED <<owner, nextPatentId, nextLicenseId, patents, licenses, royaltyPayments,
                   confidentialBids, bidders, biddingOpen, biddingEndTime, plain, acl, now>>

\* The decryption oracle answers request r, once, with the plaintexts behind
\* the three handles of the request.
Gateway == "gateway"

fulfillDecryption(r) ==
    /\ r \in 1 .. Len(requests)
    /\ ~requests[r].fulfilled
    /\ requests' = [requests EXCEPT ![r].fulfilled = TRUE]
    /\ processRoyaltyVerification(Gateway, r,
          <<plain[requests[r].cts[1]], plain[requests[r].cts[2]],
            plain[requests[r].cts[3]]>>)

\* block.timestamp advances by d seconds between calls
Tick(d) ==
    /\ now' = now + d
    /\ last' = [op |-> "tick", sender |-> ZeroAddress, id |-> 0, err |-> OK]
    /\ UNCHANGED ledger

----------------------------------------------------------------------------
(* Spec: the whole ledger.  alice registers, bob requests, bids and pays;  *)
(* every call is made with accepted and rejected arguments.                *)

\* room for k more ciphertexts
Room(k) == Len(plain) + k <= MaxHandles

Horizon == Day + MaxHours * Hour

\* the ids a caller may name: those issued, 0, and the next one to be issued
KnownPatentIds == {p \in PatentIds : p <= nextPatentId}
KnownLicenseIds == {l \in LicenseIds : l <= nextLicenseId}

CallRegisterPatent ==
    \E rate \in {500, 10001}, conf \in BOOLEAN :
        /\ nextPatentId <= MaxPatents
        /\ Room(3)
        /\ registerPatent("alice", rate, 100, 30, 5, "QmHash", 1, conf)

CallRequestLicense ==
    \E p \in KnownPatentIds, days \in {0, 60} :
        /\ nextLicenseId <= MaxLicenses
        /\ Room(4)
        /\ requestLicense("bob", p, 150, 500, 0, days, FALSE, FALSE, 1)

CallApproveLicense ==
    \E s \in {"alice", "bob"}, l \in KnownLicenseIds : approveLicense(s, l, 60)

CallUpdatePatentStatus ==
    \E s \in {"alice", "bob"}, p \in KnownPatentIds :
        updatePatentStatus(s, p, "Suspended")

CallUpdateLicenseStatus ==
    \E s \in {"alice", "bob"}, l \in KnownLicenseIds :
        updateLicenseStatus(s, l, "Revoked")

CallStartConfidentialBidding ==
    \E s \in {"alice", "bob"}, p \in KnownPatentIds, hours \in {0, 1} :
        startConfidentialBidding(s, p, hours)

CallSubmitConfidentialBid ==
    \E p \in KnownPatentIds, amount \in {0, 10} :
        /\ Room(1)
        /\ submitConfidentialBid("bob", p, amount)

CallFinalizeBidding ==
    \E s \in {"alice", "bob"}, p \in KnownPatentIds :
        /\ nextLicenseId <= MaxLicenses
        /\ Room(2)
        /\ finalizeBidding(s, p)

CallPayRoyalties ==
    \E s \in {"alice", "bob"}, l \in KnownLicenseIds, accepted \in BOOLEAN :
        /\ Len(royaltyPayments[l]) < MaxPayments
        /\ Room(2)
        /\ payRoyalties(s, l, 2000, 1, 100, accepted)

CallRequestRoyaltyVerification ==
    \E s \in {"alice", "bob"}, l \in KnownLicenseIds, i \in 0 .. MaxPayments :
        /\ i <= Len(royaltyPayments[l])
        /\ Len(requests) < MaxRequests
        /\ requestRoyaltyVerification(s, l, i)

GatewayCallback == \E r \in 1 .. MaxRequests : fulfillDecryption(r)

Clock == now + Hour <= Horizon /\ Tick(Hour)

Next ==
    \/ CallRegisterPatent
    \/ CallRequestLicense
    \/ CallApproveLicense
    \/ CallUpdatePatentStatus
    \/ CallUpdateLicenseStatus
    \/ CallStartConfidentialBidding
    \/ CallSubmitConfidentialBid
    \/ CallFinalizeBidding
    \/ CallPayRoyalties
    \/ CallRequestRoyaltyVerification
    \/ GatewayCallback
    \/ Clock

Spec == Init /\ [][Next]_vars

----------------------------------------------------------------------------
(* SpecRoyalty: one license from request to verified payment.  alice owns  *)
(* the patent, bob is the licensee; the amounts are those of the royalty   *)
(* examples (revenue 1000 or 2000, rate 500 or 1000, 94, 96 or 100 paid).  *)

RoyRegisterPatent ==
    \E rate \in {500, 1000} :
        /\ nextPatentId <= MaxPatents
        /\ registerPatent("alice", rate, 100, 30, 5, "QmHash", 1, FALSE)

RoyRequestLicense ==
    \E rate \in {500, 1000} :
        /\ nextLicenseId <= MaxRoyLicenses
        /\ requestLicense("bob", 1, 150, rate, 0, 60, FALSE, FALSE, 1)

RoyApproveLicense ==
    \E s \in {"alice", "bob"}, l \in 1 .. MaxRoyLicenses : approveLicense(s, l, 60)

RoyPayRoyalties ==
    \E s \in {"alice", "bob"}, l \in 1 .. MaxRoyLicenses, revenue \in {1000, 2000},
       value \in {94, 96, 100} :
        /\ Len(royaltyPayments[l]) < MaxPayments
        /\ payRoyalties(s, l, revenue, 1, value, TRUE)

RoyRequestRoyaltyVerification ==
    \E s \in {"alice", "bob"}, l \in 1 .. MaxRoyLicenses, i \in 0 .. MaxPayments :
        /\ Len(requests) < MaxRequests
        /\ requestRoyaltyVerification(s, l, i)

RoyGatewayCallback == \E r \in 1 .. MaxRequests : fulfillDecryption(r)

NextRoyalty ==
    \/ RoyRegisterPatent
    \/ RoyRequestLicense
    \/ RoyApproveLicense
    \/ RoyPayRoyalties
    \/ RoyRequestRoyaltyVerification
    \/ RoyGatewayCallback

SpecRoyalty == Init /\ [][NextRoyalty]_vars

----------------------------------------------------------------------------
(* SpecPay: royalty payments under two licenses of patent 1.  alice owns   *)
(* the patent, bob is the licensee; alice and bob try to pay, the transfer *)
(* to the licensor succeeds or fails.                                      *)

PayLicenses == {1, 2}

PayRegisterPatent ==
    /\ nextPatentId = 1
    /\ registerPatent("alice", 500, 100, 30, 5, "QmHash", 1, FALSE)

PayRequestLicense ==
    /\ nextLicenseId \in PayLicenses
    /\ requestLicense("bob", 1, 150, 500, 0, 60, FALSE, FALSE, 1)

PayApproveLicense == \E l \in PayLicenses : approveLicense("alice", l, 60)

PayUpdateLicenseStatus ==
    \E l \in PayLicenses : updateLicenseStatus("alice", l, "Suspended")

PayPayRoyalties ==
    \E s \in {"alice", "bob"}, l \in PayLicenses, accepted \in BOOLEAN :
        /\ Len(royaltyPayments[l]) < MaxPayments
        /\ payRoyalties(s, l, 2000, 1, 100, accepted)

NextPay ==
    \/ PayRegisterPatent
    \/ PayRequestLicense
    \/ PayApproveLicense
    \/ PayUpdateLicenseStatus
    \/ PayPayRoyalties

SpecPay == Init /\ [][NextPay]_vars

----------------------------------------------------------------------------
(* SpecVerify: the verification of royalty payments.  alice owns patent 1, *)
(* bob is the licensee; bob reports a revenue of 2000 at a rate of 500 and *)
(* transfers 100 (the royalty due) or 94 (below the tolerance).  Anyone    *)
(* can call the callback function directly.                                *)

VerRegisterPatent ==
    /\ nextPatentId = 1
    /\ registerPatent("alice", 500, 100, 30, 5, "QmHash", 1, FALSE)

VerLicenses == {1}

VerRequestLicense ==
    /\ nextLicenseId \in VerLicenses
    /\ requestLicense("bob", 1, 150, 500, 0, 60, FALSE, FALSE, 1)

VerApproveLicense == \E l \in VerLicenses : approveLicense("alice", l, 60)

VerPayRoyalties ==
    \E l \in VerLicenses, value \in {94, 100} :
        /\ Len(royaltyPayments[l]) < MaxPayments
        /\ payRoyalties("bob", l, 2000, 1, value, TRUE)

VerRequestRoyaltyVerification ==
    \E s \in {"alice", "bob"}, l \in VerLicenses, i \in 0 .. MaxPayments :
        /\ Len(requests) < MaxVerRequests
        /\ requestRoyaltyVerification(s, l, i)

VerGatewayCallback == \E r \in 1 .. MaxVerRequests : fulfillDecryption(r)

\* processRoyaltyVerification is external and checks neither the caller nor
\* the request id
VerDirectCallback ==
    \E requestId \in 0 .. (MaxVerRequests + 1), values \in {<<>>, <<2000, 500, 0>>} :
        /\ processRoyaltyVerification("bob", requestId, values)
        /\ UNCHANGED requests

NextVerify ==
    \/ VerRegisterPatent
    \/ VerRequestLicense
    \/ VerApproveLicense
    \/ VerPayRoyalties
    \/ VerRequestRoyaltyVerification
    \/ VerGatewayCallback
    \/ VerDirectCallback

SpecVerify == Init /\ [][NextVerify]_vars

----------------------------------------------------------------------------
(* SpecPatent: registration and the three ways a patent's status is        *)
(* written.  alice and the deployer register, with royalty rates and       *)
(* validity periods on both sides of their limits; bob owns nothing.       *)

RateCases == {500, 10000, 10001}
YearCases == {0, 1, 20, 21}

PatRegisterPatent ==
    \E s \in {"alice", Deployer}, rate \in RateCases, years \in YearCases :
        /\ nextPatentId <= MaxPatents
        /\ registerPatent(s, rate, 100, 30, years, "QmHash", 1, FALSE)

PatUpdatePatentStatus ==
    \E s \in {"alice", "bob", Deployer}, p \in KnownPatentIds,
       st \in {"Active", "Suspended", "Expired"} :
        updatePatentStatus(s, p, st)

PatEmergencyPause ==
    \E s \in {"alice", "bob", Deployer}, p \in KnownPatentIds : emergencyPause(s, p)

PatEmergencyResume ==
    \E s \in {"alice", "bob", Deployer}, p \in KnownPatentIds : emergencyResume(s, p)

NextPatent ==
    \/ PatRegisterPatent
    \/ PatUpdatePatentStatus
    \/ PatEmergencyPause
    \/ PatEmergencyResume

SpecPatent == Init /\ [][NextPatent]_vars

----------------------------------------------------------------------------
(* SpecLicense: license requests, approval and status updates.  alice owns *)
(* the patents, bob requests licenses.                                     *)

LicRegisterPatent ==
    /\ nextPatentId <= MaxPatents
    /\ registerPatent("alice", 500, 100, 30, 5, "QmHash", 1, FALSE)

LicRequestLicense ==
    \E p \in KnownPatentIds, days \in {0, 60} :
        /\ nextLicenseId <= MaxLicenses
        /\ requestLicense("bob", p, 150, 500, 0, days, TRUE, FALSE, 1)

LicApproveLicense ==
    \E s \in {"alice", "bob"}, l \in KnownLicenseIds : approveLicense(s, l, 60)

LicUpdateLicenseStatus ==
    \E s \in {"alice", "bob"}, l \in KnownLicenseIds, st \in {"Pending", "Revoked"} :
        updateLicenseStatus(s, l, st)

NextLicense ==
    \/ LicRegisterPatent
    \/ LicRequestLicense
    \/ LicApproveLicense
    \/ LicUpdateLicenseStatus

SpecLicense == Init /\ [][NextLicense]_vars

----------------------------------------------------------------------------
(* SpecRequest: license requests on patents in every status.  alice owns   *)
(* the patents and writes their status, the deployer pauses them; bob      *)
(* requests licenses with durations and rates on both sides of the limits. *)

DayCases == {0, 60}
RequestRateCases == {500, 10000, 10001}

ReqRegisterPatent ==
    /\ nextPatentId <= MaxPatents
    /\ registerPatent("alice", 500, 100, 30, 5, "QmHash", 1, FALSE)

ReqUpdatePatentStatus ==
    \E p \in KnownPatentIds, st \in {"Active", "Suspended", "Expired"} :
        updatePatentStatus("alice", p, st)

ReqEmergencyPause == \E p \in KnownPatentIds : emergencyPause(Deployer, p)

ReqRequestLicense ==
    \E p \in KnownPatentIds, days \in DayCases, rate \in RequestRateCases :
        /\ nextLicenseId <= MaxLicenses
        /\ requestLicense("bob", p, 150, rate, 0, days, FALSE, FALSE, 1)

NextRequest ==
    \/ ReqRegisterPatent
    \/ ReqUpdatePatentStatus
    \/ ReqEmergencyPause
    \/ ReqRequestLicense

SpecRequest == Init /\ [][NextRequest]_vars

----------------------------------------------------------------------------
(* SpecAuction: sealed-bid auctions of the first patent.  alice owns it;   *)
(* bob bids 10, carol 50 and dave 30, in any order and any number of times *)
(* up to MaxBids bids in all.                                              *)

AuctionPatents == {1}
Bidders == {"bob", "carol", "dave"}
BidAmount == [b \in Bidders |-> CASE b = "bob" -> 10 [] b = "carol" -> 50 [] OTHER -> 30]

\* bids accepted so far: a patent takes 3 ciphertexts, an awarded license 2
BidsSubmitted == Len(plain) - 3 * (nextPatentId - 1) - 2 * (nextLicenseId - 1)

\* only the patents that are put up for auction are registered
AucRegisterPatent ==
    /\ nextPatentId \in AuctionPatents
    /\ registerPatent("alice", 500, 100, 30, 5, "QmHash", 1, TRUE)

\* durations on both sides of the limits (1 hour .. 1 week)
HourCases == {0, 1, 168, 169}

AucStartConfidentialBidding ==
    \E s \in {"alice", "bob"}, p \in AuctionPatents, hours \in HourCases :
        startConfidentialBidding(s, p, hours)

AucSubmitConfidentialBid ==
    \E s \in Bidders, p \in AuctionPatents : \E amount \in {0, BidAmount[s]} :
        /\ BidsSubmitted < MaxBids
        /\ submitConfidentialBid(s, p, amount)

AucFinalizeBidding ==
    \E s \in {"alice", "bob"}, p \in AuctionPatents :
        /\ nextLicenseId <= MaxLicenses
        /\ finalizeBidding(s, p)

AucUpdatePatentStatus ==
    \E p \in AuctionPatents, st \in {"Active", "Suspended"} :
        updatePatentStatus("alice", p, st)

AucClock == now + Hour <= Horizon /\ Tick(Hour)

NextAuction ==
    \/ AucRegisterPatent
    \/ AucStartConfidentialBidding
    \/ AucSubmitConfidentialBid
    \/ AucFinalizeBidding
    \/ AucUpdatePatentStatus
    \/ AucClock

SpecAuction == Init /\ [][NextAuction]_vars

----------------------------------------------------------------------------
(* Royalty verification *)

\* the payments (license, index from 0) a decryption request was issued for
PaymentsOf(r) ==
    {<<l, i>> \in LicenseIds \X (0 .. MaxPayments) :
        /\ i < Len(royaltyPayments[l])
        /\ royaltyPayments[l][i + 1].encryptedRevenue = requests[r].cts[1]}

\* the callback for request r is delivered in this step
Delivered(r) ==
    /\ r \in 1 .. Len(requests)
    /\ ~requests[r].fulfilled
    /\ requests'[r].fulfilled
    /\ last'.err = OK

\* transferred >= 0.95 * expected, expected = revenue * rate / 10000
WithinTolerance(revenue, rate, transferred) ==
    100 * transferred >= 95 * ((revenue * rate) \div 10000)

\* C2: when the callback is delivered for a pending request whose payment is
\* still unverified, the payment becomes Verified if the transferred amount is
\* at least 95% of revenue * rate / 10000 (and is not Verified otherwise).
C2_CallbackResolvesPayment ==
    [][\A r \in 1 .. Len(requests) : \A li \in PaymentsOf(r) :
          (Delivered(r) /\ ~royaltyPayments[li[1]][li[2] + 1].isVerified)
          => (royaltyPayments'[li[1]][li[2] + 1].isVerified
              = WithinTolerance(plain[requests[r].cts[1]], plain[requests[r].cts[2]],
                                plain[requests[r].cts[3]]))]_vars

\* the end-to-end scenario has run: register (rate 500, 5 years), request
\* (rate 500, 60 days), approve, pay (revenue 2000, transferred 100),
\* requestVerification and the delivery of the callback, each accepted
C3_ScenarioDone ==
    /\ nextPatentId > 1 /\ nextLicenseId > 1
    /\ patents[1].patentOwner = "alice"
    /\ plain[patents[1].encryptedRoyaltyRate] = 500
    /\ patents[1].expirationTime = patents[1].registrationTime + 5 * Year
    /\ licenses[1].licensee = "bob" /\ licenses[1].licensor = "alice"
    /\ plain[licenses[1].encryptedRoyaltyRate] = 500
    /\ licenses[1].status = "Active"
    /\ licenses[1].endTime = licenses[1].startTime + 60 * Day
    /\ Len(royaltyPayments[1]) >= 1
    /\ plain[royaltyPayments[1][1].encryptedRevenue] = 2000
    /\ plain[royaltyPayments[1][1].encryptedAmount] = 100
    /\ \E r \in 1 .. Len(requests) :
          /\ requests[r].cts[1] = royaltyPayments[1][1].encryptedRevenue
          /\ requests[r].fulfilled
    /\ last.op = "processRoyaltyVerification" /\ last.err = OK

\* C3: the end-to-end scenario succeeds at every step and ends with the
\* payment Verified.
C3_EndToEndVerified == C3_ScenarioDone => royaltyPayments[1][1].isVerified

----------------------------------------------------------------------------
(* Error kinds: the revert strings of the contract by the kind of error    *)
(* they report.                                                            *)

Unauthorized == {"Not authorized", "Not patent owner", "Not the licensor", "Not the licensee"}
InvalidState == {"License not pending", "License not active"}
AuctionClosed == {"Bidding not open", "Bidding ended"}
AuctionStillOpen == {"Bidding still active"}
PatentNotActive == {"Patent not active"}
InvalidParameter ==
    {"Royalty rate too high", "Invalid validity period", "Invalid duration",
     "Invalid royalty rate", "Invalid bid amount"}
AuctionAlreadyOpen == {"Bidding already open"}
AlreadyVerified == {"Already verified"}

\* the patents and licenses that exist
Registered == 1 .. (nextPatentId - 1)
Created == 1 .. (nextLicenseId - 1)

\* the call recorded by this step
Called(op, id) == last'.op = op /\ last'.id = id
Accepted(op, id) == Called(op, id) /\ last'.err = OK

----------------------------------------------------------------------------
(* Auction *)

BidderSet(p) == {bidders[p][i] : i \in 1 .. Len(bidders[p])}
BidValue(p, b) == plain[confidentialBids[p][b]]

\* C1: a finalize of an auction with a non-empty bidder list creates a license
\* whose licensee is a bidder whose current bid is the maximum over the list.
C1_FinalizeSelectsHighestBid ==
    [][\A p \in PatentIds :
          (Accepted("finalizeBidding", p) /\ Len(bidders[p]) > 0)
          => /\ nextLicenseId' = nextLicenseId + 1
             /\ licenses'[nextLicenseId].licensee \in BidderSet(p)
             /\ \A b \in BidderSet(p) :
                   BidValue(p, licenses'[nextLicenseId].licensee) >= BidValue(p, b)]_vars

\* at no time are both a bid and a finalize accepted for the same patent
NeverBothAccepted ==
    \A p \in PatentIds :
        ~(/\ \E amount \in {10} : submitConfidentialBidError(p, amount) = OK
          /\ \E s \in Addresses : finalizeBiddingError(s, p) = OK)

\* C8 (as amended): while an auction is open, a bid at or after the deadline
\* is rejected, with AuctionClosed if the patent is Active and with
\* PatentNotActive otherwise; a finalize by the owner before the deadline is
\* rejected with AuctionStillOpen; bids are recorded only while the auction is
\* open and before the deadline, a finalize is accepted only at or after the
\* deadline and closes the auction, and no state accepts both.
C8_AuctionWindow ==
    /\ []NeverBothAccepted
    /\ [][\A p \in PatentIds :
            /\ (biddingOpen[p] /\ now >= biddingEndTime[p]
                  /\ Called("submitConfidentialBid", p))
               => /\ patents[p].status = "Active" => last'.err = "Bidding ended"
                  /\ patents[p].status # "Active" => last'.err \in PatentNotActive
            /\ (biddingOpen[p] /\ now < biddingEndTime[p]
                  /\ Called("finalizeBidding", p)
                  /\ last'.sender = patents[p].patentOwner)
               => last'.err \in AuctionStillOpen
            /\ (confidentialBids'[p] # confidentialBids[p] \/ bidders'[p] # bidders[p])
               => (biddingOpen[p] /\ now < biddingEndTime[p])
            /\ Accepted("finalizeBidding", p)
               => (biddingOpen[p] /\ now >= biddingEndTime[p] /\ ~biddingOpen'[p])]_vars

C8_Witness ==
    /\ biddingOpen[1]
    /\ now >= biddingEndTime[1]
    /\ last = [op |-> "submitConfidentialBid", sender |-> "bob", id |-> 1,
               err |-> "Bidding ended"]

\* C8 as stated: every bid at or after the deadline of an open auction is
\* rejected with AuctionClosed, and every finalize by the owner before the
\* deadline with AuctionStillOpen.
C8_Original ==
    [][\A p \in PatentIds :
            /\ (biddingOpen[p] /\ now >= biddingEndTime[p]
                  /\ Called("submitConfidentialBid", p))
               => last'.err \in AuctionClosed
            /\ (biddingOpen[p] /\ now < biddingEndTime[p]
                  /\ Called("finalizeBidding", p)
                  /\ last'.sender = patents[p].patentOwner)
               => last'.err \in AuctionStillOpen]_vars

----------------------------------------------------------------------------
(* License approval *)

\* C4 (as amended): approve is rejected whenever the license is not Pending
\* (with InvalidState when the caller is the licensor of an existing license),
\* an accepted approve takes the license from Pending to Active, and a license
\* that was approved becomes Pending again only by updateLicenseStatus of its
\* licensor.
C4_ApproveOnlyPending ==
    [][\A l \in LicenseIds :
          /\ (Called("approveLicense", l) /\ licenses[l].status # "Pending")
             => /\ last'.err # OK
                /\ (l < nextLicenseId /\ last'.sender = licenses[l].licensor)
                   => last'.err = "License not pending"
          /\ Accepted("approveLicense", l)
             => /\ licenses[l].status = "Pending"
                /\ licenses'[l].status = "Active"
                /\ last'.sender = licenses[l].licensor
          /\ (l \in Created /\ licenses[l].status # "Pending"
                /\ licenses'[l].status = "Pending")
             => /\ Accepted("updateLicenseStatus", l)
                /\ last'.sender = licenses[l].licensor]_vars

\* a second approve by the licensor was rejected: the license had been approved
C4_Witness ==
    /\ last = [op |-> "approveLicense", sender |-> "alice", id |-> 1,
               err |-> "License not pending"]
    /\ licenses[1].startTime # 0
    /\ licenses[1].status = "Active"

\* C4 as stated: approve is accepted at most once per license.  A license
\* created by a request has startTime = 0 until its first accepted approve.
C4_Original ==
    [][\A l \in LicenseIds :
          Accepted("approveLicense", l) => licenses[l].startTime = 0]_vars

----------------------------------------------------------------------------
(* Patent status *)

StatusChanged(p) == patents'[p].status # patents[p].status

\* C5 (as amended): the status of a registered patent changes only by an
\* accepted updatePatentStatus of its owner or an accepted emergencyPause or
\* emergencyResume of the contract owner; updatePatentStatus by anyone else is
\* rejected with Unauthorized and changes nothing.
C5_StatusWriters ==
    [][\A p \in PatentIds :
          /\ (p \in Registered /\ StatusChanged(p))
             => \/ /\ Accepted("updatePatentStatus", p)
                   /\ last'.sender = patents[p].patentOwner
                \/ /\ Accepted("emergencyPause", p) \/ Accepted("emergencyResume", p)
                   /\ last'.sender = owner
          /\ (Called("updatePatentStatus", p) /\ last'.sender # patents[p].patentOwner)
             => /\ last'.err \in Unauthorized
                /\ patents' = patents]_vars

C5_Witness ==
    /\ 1 \in Registered
    /\ patents[1].patentOwner = "alice"
    /\ patents[1].status = "Expired"
    /\ last = [op |-> "updatePatentStatus", sender |-> "bob", id |-> 1,
               err |-> "Not patent owner"]

\* C5 as stated: the status of a registered patent changes only by an accepted
\* call of the patent's owner.
C5_Original ==
    [][\A p \in PatentIds :
          (p \in Registered /\ StatusChanged(p))
          => (last'.err = OK /\ last'.sender = patents[p].patentOwner)]_vars

----------------------------------------------------------------------------
(* Disclosure grants *)

PatentHandles(p) ==
    {patents[p].encryptedRoyaltyRate, patents[p].encryptedMinLicenseFee,
     patents[p].encryptedExclusivityPeriod}

LicenseHandles(l) ==
    {licenses[l].encryptedLicenseFee, licenses[l].encryptedRoyaltyRate,
     licenses[l].encryptedRevenueCap, licenses[l].encryptedTerritoryMask}

PaymentHandles(l) ==
    UNION {{royaltyPayments[l][i].encryptedAmount, royaltyPayments[l][i].encryptedRevenue} :
             i \in 1 .. Len(royaltyPayments[l])}

\* the handles stored in a patent, a license, a bid or a payment
Embedded ==
    (UNION {PatentHandles(p) : p \in Registered}
     \cup UNION {LicenseHandles(l) \cup PaymentHandles(l) : l \in Created}
     \cup {confidentialBids[p][b] : p \in PatentIds, b \in Addresses}) \ {0}

\* the external principals the design names for handle h
Named(h) ==
    {patents[p].patentOwner :
        p \in {q \in Registered : h \in PatentHandles(q) /\ ~patents[q].isConfidential}}
    \cup UNION {{licenses[l].licensee, licenses[l].licensor} :
                  l \in {k \in Created : h \in LicenseHandles(k)}}
    \cup UNION {{pb[2], patents[pb[1]].patentOwner} :
                  pb \in {x \in PatentIds \X Addresses : confidentialBids[x[1]][x[2]] = h}}
    \cup {licenses[l].licensor : l \in {k \in Created : h \in PaymentHandles(k)}}

GrantsOfEmbeddedNamed ==
    \A g \in acl : (g[1] \in Embedded /\ g[2] # This) => g[2] \in Named(g[1])

\* C6: every disclosure grant is given to the ledger itself or to a principal
\* the design names for the handle at the time of the grant (a patent's fields:
\* the owner, unless the patent is confidential; a license's fields: licensee
\* and licensor; a bid: the bidder and the patent owner; a payment's fields:
\* the licensor), and the grants on the handles stored in the ledger are held
\* by those principals only.
C6_GrantsOnlyToNamed ==
    /\ []GrantsOfEmbeddedNamed
    /\ [][\A g \in acl' \ acl : g[2] = This \/ g[2] \in Named(g[1])']_vars

\* a license under which a royalty was paid, on a patent that is not confidential
C6_Witness ==
    /\ 1 \in Registered /\ ~patents[1].isConfidential
    /\ <<patents[1].encryptedRoyaltyRate, "alice">> \in acl
    /\ 1 \in Created
    /\ <<licenses[1].encryptedLicenseFee, "bob">> \in acl
    /\ <<licenses[1].encryptedLicenseFee, "alice">> \in acl
    /\ Len(royaltyPayments[1]) > 0
    /\ <<royaltyPayments[1][1].encryptedRevenue, "alice">> \in acl
    /\ <<royaltyPayments[1][1].encryptedRevenue, "bob">> \notin acl

\* C7: licensee and licensor of every license hold a grant on each of its four
\* ciphertext fields.
C7_BothPartiesGranted ==
    \A l \in Created : \A h \in LicenseHandles(l) :
        /\ <<h, licenses[l].licensee>> \in acl
        /\ <<h, licenses[l].licensor>> \in acl

----------------------------------------------------------------------------
(* Atomic failure *)

SynchronousOps ==
    {"registerPatent", "updatePatentStatus", "updateLicenseStatus", "requestLicense",
     "approveLicense", "startConfidentialBidding", "submitConfidentialBid",
     "finalizeBidding", "payRoyalties", "requestRoyaltyVerification"}

\* C9: a synchronous call that returns an error leaves patents, licenses, bids,
\* bidder lists, payments, auction flags and deadlines, grants and both id
\* counters as they were.
C9_FailedCallChangesNothing ==
    [][(last'.op \in SynchronousOps /\ last'.err # OK) => ledger' = ledger]_vars

\* a payment on an approved license whose transfer to the licensor failed
C9_Witness ==
    /\ last = [op |-> "payRoyalties", sender |-> "bob", id |-> 1,
               err |-> "Transfer failed"]
    /\ licenses[1].status = "Active"
    /\ Len(plain) > 0
    /\ royaltyPayments[1] = <<>>

----------------------------------------------------------------------------
(* Referential integrity *)

\* C10: the patentId of every license is the id of a registered patent.
C10_LicensePatentRegistered ==
    \A l \in Created : licenses[l].patentId \in Registered

----------------------------------------------------------------------------
(* Registration *)

\* registerPatent accepts a rate and a validity period exactly when
\* rate <= 10000 and 1 <= validityYears <= 20, and rejects with InvalidParameter
RegisterAcceptsExactlyValid ==
    \A rate \in RateCases, years \in YearCases :
        /\ (registerPatentError(rate, years) = OK)
           <=> (rate <= 10000 /\ 1 <= years /\ years <= 20)
        /\ registerPatentError(rate, years) \in {OK} \cup InvalidParameter

\* C11: register succeeds exactly when royaltyRate <= 10000 and
\* 1 <= validityYears <= 20 (10000 accepted, 10001 rejected, 0 and 21 years
\* rejected, each with InvalidParameter and no change of the ledger); a
\* successful register creates the next patent with status Active, the caller
\* as owner, a stored rate of at most 10000 and
\* expirationTime = registrationTime + validityYears * 365 days.
C11_RegisterValidation ==
    /\ []RegisterAcceptsExactlyValid
    /\ [][\A p \in PatentIds : Called("registerPatent", p) =>
            /\ last'.err \in {registerPatentError(r, y) : r \in RateCases, y \in YearCases}
            /\ last'.err # OK => ledger' = ledger
            /\ last'.err = OK =>
                  /\ p = nextPatentId /\ nextPatentId' = nextPatentId + 1
                  /\ patents'[p].status = "Active"
                  /\ patents'[p].patentOwner = last'.sender
                  /\ patents'[p].registrationTime = now
                  /\ \E y \in 1 .. 20 :
                        patents'[p].expirationTime = patents'[p].registrationTime + y * Year
                  /\ plain'[patents'[p].encryptedRoyaltyRate] <= 10000
                  /\ \A q \in PatentIds \ {p} : patents'[q] = patents[q]]_vars

\* a patent registered with the highest rate and the longest validity accepted
C11_Witness ==
    /\ last = Done("registerPatent", "alice", 1)
    /\ patents[1].patentOwner = "alice" /\ patents[1].status = "Active"
    /\ plain[patents[1].encryptedRoyaltyRate] = 10000
    /\ patents[1].expirationTime = patents[1].registrationTime + 20 * Year

----------------------------------------------------------------------------
(* Emergency controls *)

\* C18: emergencyPause and emergencyResume are accepted exactly when the
\* caller is the contract owner, who is the deployer for ever; a call by anyone
\* else is rejected with Unauthorized and changes nothing; an accepted
\* emergencyPause sets the status of the patent to Suspended, an accepted
\* emergencyResume sets it to Active, and neither writes anything else.
C18_EmergencyByContractOwner ==
    /\ [](owner = Deployer)
    /\ [][\A p \in PatentIds :
            /\ (Called("emergencyPause", p) \/ Called("emergencyResume", p))
               => /\ (last'.err = OK) <=> (last'.sender = owner)
                  /\ last'.err # OK
                     => (last'.err \in Unauthorized /\ ledger' = ledger)
                  /\ \A q \in PatentIds \ {p} : patents'[q] = patents[q]
                  /\ patents' = [patents EXCEPT ![p].status = patents'[p].status]
            /\ Accepted("emergencyPause", p) => patents'[p].status = "Suspended"
            /\ Accepted("emergencyResume", p) => patents'[p].status = "Active"]_vars

\* the contract owner paused a patent of alice
C18_Witness ==
    /\ last = Done("emergencyPause", Deployer, 1)
    /\ patents[1].patentOwner = "alice"
    /\ patents[1].status = "Suspended"

----------------------------------------------------------------------------
(* License requests *)

\* what requestLicense answers, in the current state, to each request for a
\* registered patent
RequestRejectsAsSpecified ==
    \A p \in Registered, days \in DayCases, rate \in RequestRateCases :
        LET e == requestLicenseError(p, days, rate)
        IN  /\ patents[p].status # "Active" => e \in PatentNotActive
            /\ (patents[p].status = "Active" /\ (days = 0 \/ rate > 10000))
               => e \in InvalidParameter
            /\ (patents[p].status = "Active" /\ days > 0 /\ rate <= 10000) => e = OK

\* C12: a license request for a patent whose status is not Active (however
\* it was set) is rejected with PatentNotActive; for an Active patent it is
\* rejected with InvalidParameter when durationDays = 0 or the rate exceeds
\* 10000 and accepted otherwise; a rejected request changes nothing and an
\* accepted one creates the next license, Pending, with the caller as licensee
\* and the owner of the patent as licensor.
C12_RequestValidation ==
    /\ []RequestRejectsAsSpecified
    /\ [][\A p \in PatentIds : Called("requestLicense", p) =>
            /\ (p \in Registered /\ patents[p].status # "Active")
               => last'.err \in PatentNotActive
            /\ last'.err # OK => ledger' = ledger
            /\ last'.err = OK =>
                  /\ patents[p].status = "Active"
                  /\ nextLicenseId' = nextLicenseId + 1
                  /\ licenses'[nextLicenseId].status = "Pending"
                  /\ licenses'[nextLicenseId].licensee = last'.sender
                  /\ licenses'[nextLicenseId].licensor = patents[p].patentOwner
                  /\ licenses'[nextLicenseId].patentId = p
                  /\ plain'[licenses'[nextLicenseId].encryptedRoyaltyRate] <= 10000
                  /\ \A l \in LicenseIds \ {nextLicenseId} :
                        licenses'[l] = licenses[l]]_vars

\* a request for a patent that its owner marked Expired was rejected, after a
\* request for the same patent had been accepted
C12_Witness ==
    /\ last = [op |-> "requestLicense", sender |-> "bob", id |-> 1,
               err |-> "Patent not active"]
    /\ patents[1].status = "Expired"
    /\ 1 \in Created
    /\ licenses[1] = [licenses[1] EXCEPT !.patentId = 1, !.licensee = "bob",
                                          !.licensor = "alice", !.status = "Pending"]

----------------------------------------------------------------------------
(* Bids *)

BidCases == {0} \cup {BidAmount[b] : b \in Bidders}

\* what submitConfidentialBid answers, in the current state, to each bid on a
\* registered patent
BidAcceptedExactlyWhen ==
    \A p \in Registered, amount \in BidCases :
        LET e == submitConfidentialBidError(p, amount)
            inWindow == biddingOpen[p] /\ now < biddingEndTime[p]
        IN  /\ (e = OK) <=> (patents[p].status = "Active" /\ inWindow /\ amount > 0)
            /\ patents[p].status # "Active" => e \in PatentNotActive
            /\ (patents[p].status = "Active" /\ ~inWindow) => e \in AuctionClosed
            /\ (patents[p].status = "Active" /\ inWindow /\ amount = 0)
               => e \in InvalidParameter

\* C13 (as amended): a bid on a registered patent is accepted exactly when the
\* patent's status is Active, its auction is open, now < deadline and
\* amount > 0; it is rejected with PatentNotActive when the patent is not
\* Active, else with AuctionClosed when the auction is not open or the
\* deadline has passed, else with InvalidParameter; a rejected bid changes
\* nothing and an accepted bid records a positive amount for the bidder.
C13_BidAcceptance ==
    /\ []BidAcceptedExactlyWhen
    /\ [][\A p \in Registered : Called("submitConfidentialBid", p) =>
            /\ patents[p].status # "Active" => last'.err \in PatentNotActive
            /\ last'.err # OK
               => /\ last'.err \in PatentNotActive \cup AuctionClosed \cup InvalidParameter
                  /\ ledger' = ledger
            /\ last'.err = OK
               => /\ patents[p].status = "Active"
                  /\ biddingOpen[p] /\ now < biddingEndTime[p]
                  /\ confidentialBids'[p][last'.sender] = Len(plain')
                  /\ plain'[Len(plain')] > 0]_vars

\* a positive bid inside the window of an open auction was rejected: the
\* patent is suspended
C13_Witness ==
    /\ last = [op |-> "submitConfidentialBid", sender |-> "carol", id |-> 1,
               err |-> "Patent not active"]
    /\ patents[1].status = "Suspended"
    /\ biddingOpen[1] /\ now < biddingEndTime[1]

\* C13 as stated: a bid on a registered patent is rejected with AuctionClosed
\* or InvalidParameter only; no other condition rejects it.
C13_Original ==
    [][\A p \in Registered :
          (Called("submitConfidentialBid", p) /\ last'.err # OK)
          => last'.err \in AuctionClosed \cup InvalidParameter]_vars

----------------------------------------------------------------------------
(* Opening an auction *)

\* what startConfidentialBidding answers, in the current state, to each caller
\* and duration, for a registered patent
OpenAcceptedExactlyWhen ==
    \A p \in Registered, s \in Users, hours \in HourCases :
        LET e == startConfidentialBiddingError(s, p, hours)
            isOwner == s = patents[p].patentOwner
            validHours == 0 < hours /\ hours <= 168
        IN  /\ (e = OK) <=> (isOwner /\ ~biddingOpen[p] /\ validHours)
            /\ ~isOwner => e \in Unauthorized
            /\ (isOwner /\ biddingOpen[p]) => e \in AuctionAlreadyOpen
            /\ (isOwner /\ ~biddingOpen[p] /\ ~validHours) => e \in InvalidParameter

\* C17: open is accepted exactly when the caller is the owner of the patent,
\* no auction is open for it and 0 < durationHours <= 168, and then sets
\* biddingOpen and deadline = now + durationHours; while biddingOpen is true,
\* before and after the deadline, every open is rejected (with
\* AuctionAlreadyOpen when the caller is the owner) and the deadline is not
\* changed; a rejected open changes nothing.
C17_OpenAuction ==
    /\ []OpenAcceptedExactlyWhen
    /\ [][\A p \in PatentIds : Called("startConfidentialBidding", p) =>
            /\ biddingOpen[p]
               => /\ last'.err # OK
                  /\ biddingEndTime'[p] = biddingEndTime[p]
                  /\ last'.sender = patents[p].patentOwner
                     => last'.err \in AuctionAlreadyOpen
            /\ last'.err # OK => ledger' = ledger
            /\ last'.err = OK
               => /\ last'.sender = patents[p].patentOwner
                  /\ ~biddingOpen[p] /\ biddingOpen'[p]
                  /\ \E h \in 1 .. 168 : biddingEndTime'[p] = now + h * Hour
                  /\ \A q \in PatentIds \ {p} :
                        /\ biddingOpen'[q] = biddingOpen[q]
                        /\ biddingEndTime'[q] = biddingEndTime[q]]_vars

\* the owner tried to open the auction again after its deadline and before
\* finalize
C17_Witness ==
    /\ last = [op |-> "startConfidentialBidding", sender |-> "alice", id |-> 1,
               err |-> "Bidding already open"]
    /\ biddingOpen[1]
    /\ now >= biddingEndTime[1]

----------------------------------------------------------------------------
(* Frame of approveLicense *)

\* C15: approve of an existing license by anyone but its licensor is rejected
\* with Unauthorized and changes nothing; approve by the licensor of a Pending
\* license is accepted and sets status = Active, startTime = now and
\* endTime = now + durationDays (60 days in every call made here), and changes
\* no other field of the license, no other license and nothing else in the
\* ledger.
C15_ApproveFrame ==
    [][\A l \in Created : Called("approveLicense", l) =>
          /\ last'.sender # licenses[l].licensor
             => (last'.err \in Unauthorized /\ ledger' = ledger)
          /\ last'.err # OK => ledger' = ledger
          /\ (last'.sender = licenses[l].licensor /\ licenses[l].status = "Pending")
             => /\ last'.err = OK
                /\ licenses' = [licenses EXCEPT ![l].status = "Active",
                                                ![l].startTime = now,
                                                ![l].endTime = now + 60 * Day]
                /\ <<owner, nextPatentId, nextLicenseId, patents, royaltyPayments,
                      confidentialBids, bidders, biddingOpen, biddingEndTime, plain, acl,
                      requests>>'
                   = <<owner, nextPatentId, nextLicenseId, patents, royaltyPayments,
                       confidentialBids, bidders, biddingOpen, biddingEndTime, plain, acl,
                       requests>>]_vars

\* alice approved the exclusive license that bob requested on her patent
C15_Witness ==
    /\ last = Done("approveLicense", "alice", 1)
    /\ licenses[1] = [licenses[1] EXCEPT !.patentId = 1, !.licensee = "bob",
                                          !.licensor = "alice", !.status = "Active",
                                          !.isExclusive = TRUE, !.startTime = now,
                                          !.endTime = now + 60 * Day]
    /\ licenses[1].encryptedLicenseFee # 0

----------------------------------------------------------------------------
(* Royalty payments *)

\* C16: pay for an existing license is rejected with Unauthorized when the
\* caller is not its licensee and with InvalidState when the license is not
\* Active, and a rejected pay changes nothing; an accepted pay appends exactly
\* one payment, Unverified, at the index equal to the previous payment count
\* of that license, with two fresh ciphertexts that the licensor is granted,
\* and leaves the earlier payments of every license as they were.
C16_PayAppendsOne ==
    [][\A l \in Created : Called("payRoyalties", l) =>
          LET n == Len(royaltyPayments[l])
              new == royaltyPayments'[l][n + 1]
          IN  /\ last'.sender # licenses[l].licensee => last'.err \in Unauthorized
              /\ (last'.sender = licenses[l].licensee /\ licenses[l].status # "Active")
                 => last'.err \in InvalidState
              /\ last'.err # OK => ledger' = ledger
              /\ last'.err = OK
                 => /\ last'.sender = licenses[l].licensee
                    /\ licenses[l].status = "Active"
                    /\ Len(royaltyPayments'[l]) = n + 1
                    /\ SubSeq(royaltyPayments'[l], 1, n) = royaltyPayments[l]
                    /\ \A k \in LicenseIds \ {l} : royaltyPayments'[k] = royaltyPayments[k]
                    /\ new.licenseId = l /\ ~new.isVerified
                    /\ new.encryptedAmount # new.encryptedRevenue
                    /\ {new.encryptedAmount, new.encryptedRevenue}
                          \subseteq (Len(plain) + 1) .. Len(plain')
                    /\ <<new.encryptedAmount, licenses[l].licensor>> \in acl'
                    /\ <<new.encryptedRevenue, licenses[l].licensor>> \in acl'
                    /\ acl \subseteq acl'
                    /\ licenses' = licenses /\ patents' = patents]_vars

\* bob paid a second royalty under his license
C16_Witness ==
    /\ last = Done("payRoyalties", "bob", 1)
    /\ Len(royaltyPayments[1]) = 2
    /\ ~royaltyPayments[1][1].isVerified /\ ~royaltyPayments[1][2].isVerified
    /\ <<royaltyPayments[1][2].encryptedAmount, "alice">> \in acl
    /\ <<royaltyPayments[1][2].encryptedRevenue, "alice">> \in acl

----------------------------------------------------------------------------
(* Verification requests and callbacks *)

\* the requests issued for payment i (from 0) of license l whose callback
\* has been delivered
Answered(l, i) ==
    {r \in 1 .. Len(requests) :
        /\ requests[r].fulfilled
        /\ requests[r].cts[1] = royaltyPayments[l][i + 1].encryptedRevenue}

\* payment i of license l has been resolved: it is marked verified, or a
\* callback has answered a request for it
Resolved(l, i) == royaltyPayments[l][i + 1].isVerified \/ Answered(l, i) # {}

\* the payments of license l that the request issued in this step targets
Targeted(l) ==
    {i \in 0 .. (Len(royaltyPayments[l]) - 1) :
        requests'[Len(requests')].cts[1] = royaltyPayments[l][i + 1].encryptedRevenue}

\* C14: requestVerification for an existing license is accepted only when the
\* caller is its licensor, the index is below its payment count and the
\* targeted payment is unresolved; a call by anyone else is rejected with
\* Unauthorized, and no request is accepted for a payment that has already
\* been resolved.
C14_RequestVerificationGuard ==
    [][\A l \in Created : Called("requestRoyaltyVerification", l) =>
          /\ last'.sender # licenses[l].licensor => last'.err \in Unauthorized
          /\ last'.err # OK => ledger' = ledger
          /\ last'.err = OK
             => /\ last'.sender = licenses[l].licensor
                /\ Len(requests') = Len(requests) + 1
                /\ Targeted(l) # {}
                /\ \A i \in Targeted(l) : ~Resolved(l, i)]_vars

\* the fields of a payment other than its verification state
Terms(payment) == [payment EXCEPT !.isVerified = FALSE]

\* C19: a call of the callback changes at most the verification state of the
\* payment its request was issued for, and only when it is the delivery of a
\* request that was issued and not answered before; it writes no patent, no
\* license, no bid, no grant and no other field of any payment.  A callback
\* for a request that was never issued or was answered before changes nothing
\* in the ledger, whether it returns or reverts.
C19_CallbackFrame ==
    [][last'.op = "processRoyaltyVerification" =>
          LET r == last'.id
              issued == /\ last'.sender = Gateway
                        /\ r \in 1 .. Len(requests)
                        /\ ~requests[r].fulfilled
          IN  /\ <<owner, nextPatentId, nextLicenseId, patents, licenses, confidentialBids,
                    bidders, biddingOpen, biddingEndTime, plain, acl>>'
                 = <<owner, nextPatentId, nextLicenseId, patents, licenses,
                     confidentialBids, bidders, biddingOpen, biddingEndTime, plain, acl>>
              /\ \A l \in LicenseIds :
                    /\ Len(royaltyPayments'[l]) = Len(royaltyPayments[l])
                    /\ \A i \in 1 .. Len(royaltyPayments[l]) :
                          /\ Terms(royaltyPayments'[l][i]) = Terms(royaltyPayments[l][i])
                          /\ royaltyPayments'[l][i].isVerified
                                # royaltyPayments[l][i].isVerified
                             => /\ issued
                                /\ requests[r].cts[1]
                                     = royaltyPayments[l][i].encryptedRevenue
              /\ issued => requests' = [requests EXCEPT ![r].fulfilled = TRUE]
              /\ ~issued => ledger' = ledger]_vars

\* bob called the callback with a request id that was never issued, while one
\* request of alice had been answered and another was pending
C19_Witness ==
    /\ last = [op |-> "processRoyaltyVerification", sender |-> "bob", id |-> 0,
               err |-> OK]
    /\ Len(royaltyPayments[1]) = 2
    /\ Len(requests) = 2
    /\ requests[1].fulfilled /\ ~requests[2].fulfilled

\* C20: when two requests are pending for the same unverified payment, whose
\* transferred amount is within the tolerance, the callback that arrives first
\* makes the payment Verified; and a payment that is Verified stays Verified
\* under every later callback and operation.
C20_FirstCallbackResolves ==
    /\ [][\A r1 \in 1 .. Len(requests) : \A r2 \in 1 .. Len(requests) :
            \A li \in PaymentsOf(r1) :
               (/\ r1 # r2
                /\ requests[r1].cts[1] = requests[r2].cts[1]
                /\ ~requests[r2].fulfilled
                /\ Delivered(r1)
                /\ ~royaltyPayments[li[1]][li[2] + 1].isVerified
                /\ WithinTolerance(plain[requests[r1].cts[1]], plain[requests[r1].cts[2]],
                                   plain[requests[r1].cts[3]]))
               => royaltyPayments'[li[1]][li[2] + 1].isVerified]_vars
    /\ [][\A l \in LicenseIds : \A i \in 1 .. Len(royaltyPayments[l]) :
            royaltyPayments[l][i].isVerified
            => (Len(royaltyPayments'[l]) >= i /\ royaltyPayments'[l][i].isVerified)]_vars

----------------------------------------------------------------------------
(* Bidder lists *)

\* principals with a stored bid for patent p
StoredBidders(p) == {b \in Addresses : confidentialBids[p][b] # 0}

NoBidderTwice(p) ==
    \A i \in 1 .. Len(bidders[p]) : \A j \in 1 .. Len(bidders[p]) :
        bidders[p][i] = bidders[p][j] => i = j

\* C21: the bidder list of a patent holds no principal twice and holds exactly
\* the principals with a stored bid for the patent; it changes only by an
\* accepted first bid, which puts the bidder at its end (so it lists the bidders
\* in the order of their first accepted bids); an accepted bid of a listed
\* bidder replaces the stored bid by the new ciphertext and leaves the list as
\* it was.
C21_BidderList ==
    /\ [](\A p \in AuctionPatents :
             NoBidderTwice(p) /\ BidderSet(p) = StoredBidders(p))
    /\ [][\A p \in AuctionPatents :
            /\ bidders'[p] # bidders[p]
               => /\ Accepted("submitConfidentialBid", p)
                  /\ last'.sender \notin BidderSet(p)
                  /\ bidders'[p] = Append(bidders[p], last'.sender)
            /\ (Accepted("submitConfidentialBid", p) /\ last'.sender \in BidderSet(p))
               => /\ bidders' = bidders
                  /\ Len(plain') = Len(plain) + 1
                  /\ confidentialBids'[p][last'.sender] = Len(plain')
                  /\ \A b \in Addresses \ {last'.sender} :
                        confidentialBids'[p][b] = confidentialBids[p][b]]_vars

\* bob bid first, carol second, and bob has just bid again: bob is still the
\* first of the two listed bidders and his stored bid is the newest ciphertext
C21_Witness ==
    /\ last = Done("submitConfidentialBid", "bob", 1)
    /\ bidders[1] = <<"bob", "carol">>
    /\ confidentialBids[1]["bob"] = Len(plain)
    /\ confidentialBids[1]["bob"] > confidentialBids[1]["carol"]

----------------------------------------------------------------------------
(* Awarding an auction *)

\* C22: an accepted finalizeBidding closes the auction; when it creates a
\* license it creates exactly one, under the next license id, which was unused:
\* Active, exclusive, running from now for 365 days, its licensor the patent
\* owner, its licensee one of the listed bidders, its fee that bidder's stored
\* bid ciphertext and its royalty rate the patent's royalty-rate ciphertext.
C22_AwardedLicense ==
    [][\A p \in AuctionPatents :
         Accepted("finalizeBidding", p)
         => /\ ~biddingOpen'[p]
            /\ licenses' # licenses
               => LET id == nextLicenseId
                      lic == licenses'[id]
                  IN  /\ nextLicenseId' = id + 1
                      /\ licenses[id] = ZeroLicense
                      /\ \A l \in LicenseIds \ {id} : licenses'[l] = licenses[l]
                      /\ lic.patentId = p
                      /\ lic.status = "Active"
                      /\ lic.isExclusive
                      /\ lic.startTime = now
                      /\ lic.endTime = now + 365 * Day
                      /\ lic.licensor = patents[p].patentOwner
                      /\ lic.licensee \in BidderSet(p)
                      /\ lic.encryptedLicenseFee = confidentialBids[p][lic.licensee]
                      /\ lic.encryptedLicenseFee # 0
                      /\ lic.encryptedRoyaltyRate = patents[p].encryptedRoyaltyRate]_vars

\* alice has just finalized an auction with two bidders: license 1 exists and
\* the auction is closed
C22_Witness ==
    /\ last = Done("finalizeBidding", "alice", 1)
    /\ Len(bidders[1]) = 2
    /\ nextLicenseId = 2
    /\ licenses[1].status = "Active" /\ licenses[1].isExclusive
    /\ ~biddingOpen[1]

\* C23: finalizeBidding called by the patent owner, at or after the deadline of
\* an open auction that has no bidders, is accepted; it creates no license and
\* leaves the license counter and every license as they were; it closes the
\* auction, so that the owner's next startConfidentialBidding for the patent is
\* accepted.
C23_EmptyAuction ==
    [][\A p \in AuctionPatents :
         (/\ Called("finalizeBidding", p)
          /\ last'.sender = patents[p].patentOwner
          /\ biddingOpen[p]
          /\ now >= biddingEndTime[p]
          /\ bidders[p] = <<>>)
         => /\ last'.err = OK
            /\ licenses' = licenses
            /\ nextLicenseId' = nextLicenseId
            /\ ~biddingOpen'[p]
            /\ (startConfidentialBiddingError(patents[p].patentOwner, p, 1) = OK)']_vars

\* alice has just finalized an auction that nobody bid in
C23_Witness ==
    /\ last = Done("finalizeBidding", "alice", 1)
    /\ bidders[1] = <<>>
    /\ biddingEndTime[1] > 0 /\ now >= biddingEndTime[1]
    /\ ~biddingOpen[1]
    /\ nextLicenseId = 1

----------------------------------------------------------------------------
(* Who resolves a payment *)

\* a callback of the Gateway has been delivered for payment i of license l
CallbackDelivered(l, i) ==
    \E r \in 1 .. Len(requests) :
        /\ requests[r].fulfilled
        /\ requests[r].cts[1] = royaltyPayments[l][i].encryptedRevenue

\* C24: a payment is recorded Unverified, and its verification state changes
\* only in a step that is a callback of the Gateway: no payment, verification
\* request, approval, status update or auction operation changes it.  As long
\* as no callback has been delivered for a payment, it is Unverified and a
\* verification request of the licensor for it is accepted.
C24_OnlyCallbackResolves ==
    /\ [][\A l \in LicenseIds :
            /\ Len(royaltyPayments'[l]) >= Len(royaltyPayments[l])
            /\ \A i \in 1 .. Len(royaltyPayments'[l]) :
                  IF i <= Len(royaltyPayments[l])
                  THEN royaltyPayments'[l][i].isVerified # royaltyPayments[l][i].isVerified
                       => /\ last'.op = "processRoyaltyVerification"
                          /\ last'.sender = Gateway
                  ELSE ~royaltyPayments'[l][i].isVerified]_vars
    /\ [](\A l \in LicenseIds : \A i \in 1 .. Len(royaltyPayments[l]) :
             ~CallbackDelivered(l, i)
             => /\ ~royaltyPayments[l][i].isVerified
                /\ requestRoyaltyVerificationError(licenses[l].licensor, l, i - 1) = OK)

\* alice asked twice for the verification of bob's payment and no callback
\* came; since then she revoked the license: the payment is still unverified
C24_Witness ==
    /\ last = Done("updateLicenseStatus", "alice", 1)
    /\ licenses[1].status = "Revoked"
    /\ Len(royaltyPayments[1]) = 1
    /\ Len(requests) = 2
    /\ ~requests[1].fulfilled /\ ~requests[2].fulfilled
    /\ ~royaltyPayments[1][1].isVerified

----------------------------------------------------------------------------
(* SpecIds: the two id counters.  alice registers the first patent and bob *)
(* the later ones, carol requests licenses for the newest patent, and the  *)
(* first patent is auctioned with dave as bidder.                          *)

IdPatentIds == 0 .. MaxIdPatents
IdLicenseIds == 0 .. MaxIdLicenses

\* the constructor, with room in the mappings for the ids of SpecIds
InitIds ==
    /\ owner = Deployer
    /\ nextPatentId = 1
    /\ nextLicenseId = 1
    /\ patents = [p \in IdPatentIds |-> ZeroPatent]
    /\ licenses = [l \in IdLicenseIds |-> ZeroLicense]
    /\ royaltyPayments = [l \in IdLicenseIds |-> <<>>]
    /\ confidentialBids = [p \in IdPatentIds |-> [a \in Addresses |-> 0]]
    /\ bidders = [p \in IdPatentIds |-> <<>>]
    /\ biddingOpen = [p \in IdPatentIds |-> FALSE]
    /\ biddingEndTime = [p \in IdPatentIds |-> 0]
    /\ plain = <<>>
    /\ acl = {}
    /\ requests = <<>>
    /\ now = Day
    /\ last = Done("constructor", Deployer, 0)

IdsRegisterPatent ==
    \E years \in {0, 5} :
        /\ nextPatentId <= MaxIdPatents
        /\ registerPatent(IF nextPatentId = 1 THEN "alice" ELSE "bob",
                          500, 100, 30, years, "QmHash", 1, TRUE)

\* the patent named is the newest one (0 when there is none yet) or the one
\* that is not registered yet
IdsRequestLicense ==
    \E p \in {nextPatentId - 1, nextPatentId} \cap IdPatentIds :
        /\ nextLicenseId <= MaxIdLicenses
        /\ requestLicense("carol", p, 150, 500, 0, 60, FALSE, FALSE, 1)

IdsStartConfidentialBidding ==
    /\ nextPatentId > 1
    /\ startConfidentialBidding(patents[1].patentOwner, 1, 1)

IdsSubmitConfidentialBid ==
    /\ isFirstBid("dave", 1)
    /\ submitConfidentialBid("dave", 1, 30)

IdsFinalizeBidding ==
    /\ nextPatentId > 1
    /\ nextLicenseId <= MaxIdLicenses
    /\ finalizeBidding(patents[1].patentOwner, 1)

IdsClock == biddingOpen[1] /\ now + Hour <= Horizon /\ Tick(Hour)

NextIds ==
    \/ IdsRegisterPatent
    \/ IdsRequestLicense
    \/ IdsStartConfidentialBidding
    \/ IdsSubmitConfidentialBid
    \/ IdsFinalizeBidding
    \/ IdsClock

SpecIds == InitIds /\ [][NextIds]_vars

----------------------------------------------------------------------------
(* Identifiers *)

\* the ids under which a patent, or a license, is stored
StoredPatents == {p \in IdPatentIds : patents[p].patentOwner # ZeroAddress}
StoredLicenses == {l \in IdLicenseIds : licenses[l].licensee # ZeroAddress}

\* C25: the patent counter and the license counter start at 1; a counter
\* advances, by exactly one, exactly in a step that creates a patent (an
\* accepted registration), or a license (an accepted request, or a finalization
\* that awards the auction); the new patent or license is stored under the
\* value the counter had, where nothing was stored; a stored patent or license
\* keeps its identity ever after; and the ids in use are exactly
\* 1 .. counter - 1.
C25_Identifiers ==
    /\ [](/\ last.op = "constructor" => (nextPatentId = 1 /\ nextLicenseId = 1)
          /\ StoredPatents = Registered
          /\ StoredLicenses = Created)
    /\ [][LET registers == last'.op = "registerPatent" /\ last'.err = OK
              requests_ == last'.op = "requestLicense" /\ last'.err = OK
              awards == /\ last'.op = "finalizeBidding" /\ last'.err = OK
                        /\ bidders[last'.id] # <<>>
          IN  /\ nextPatentId' = IF registers THEN nextPatentId + 1 ELSE nextPatentId
              /\ nextLicenseId' = IF requests_ \/ awards THEN nextLicenseId + 1
                                  ELSE nextLicenseId
              /\ registers => /\ patents[nextPatentId] = ZeroPatent
                              /\ patents'[nextPatentId].patentOwner = last'.sender
              /\ requests_ => /\ licenses[nextLicenseId] = ZeroLicense
                              /\ licenses'[nextLicenseId].licensee = last'.sender
              /\ awards => /\ licenses[nextLicenseId] = ZeroLicense
                           /\ licenses'[nextLicenseId].licensee \in BidderSet(last'.id)
              /\ \A p \in Registered :
                    /\ patents'[p].patentOwner = patents[p].patentOwner
                    /\ patents'[p].registrationTime = patents[p].registrationTime
                    /\ patents'[p].patentHash = patents[p].patentHash
              /\ \A l \in Created :
                    /\ licenses'[l].patentId = licenses[l].patentId
                    /\ licenses'[l].licensee = licenses[l].licensee
                    /\ licenses'[l].licensor = licenses[l].licensor]_vars

\* two patents are registered, by different owners; license 1 was created by a
\* request, license 2 by the award of the auction, license 3 by a request
C25_Witness ==
    /\ nextPatentId = 3 /\ nextLicenseId = 4
    /\ patents[1].patentOwner # patents[2].patentOwner
    /\ licenses[1].licensee = "carol"
    /\ licenses[2].licensee = "dave" /\ licenses[2].isExclusive
    /\ licenses[3].licensee = "carol"

----------------------------------------------------------------------------
(* SpecReopen: alice auctions her patent, for one hour each time, as often *)
(* as the clock allows; bob and carol bid.                                 *)

ReoRegisterPatent ==
    /\ nextPatentId \in AuctionPatents
    /\ registerPatent("alice", 500, 100, 30, 5, "QmHash", 1, TRUE)

ReoStartConfidentialBidding ==
    \E p \in AuctionPatents :
        /\ p < nextPatentId
        /\ startConfidentialBidding("alice", p, 1)

ReoSubmitConfidentialBid ==
    \E s \in {"bob", "carol"}, p \in AuctionPatents :
        /\ BidsSubmitted < MaxBids
        /\ submitConfidentialBid(s, p, BidAmount[s])

ReoFinalizeBidding ==
    \E p \in AuctionPatents :
        /\ nextLicenseId <= MaxLicenses
        /\ finalizeBidding("alice", p)

ReoClock == now + Hour <= Day + MaxReopenHours * Hour /\ Tick(Hour)

NextReopen ==
    \/ ReoRegisterPatent
    \/ ReoStartConfidentialBidding
    \/ ReoSubmitConfidentialBid
    \/ ReoFinalizeBidding
    \/ ReoClock

SpecReopen == Init /\ [][NextReopen]_vars

----------------------------------------------------------------------------
(* Re-opened auctions *)

\* license k was awarded by an auction of the patent that was opened after
\* the auction that awarded license j had been finalized
AwardedAfter(j, k) ==
    /\ j \in Created /\ k \in Created /\ j < k
    /\ licenses[j].patentId = licenses[k].patentId
    /\ licenses[j].isExclusive /\ licenses[k].isExclusive

\* C26: the winner of a re-opened auction is a principal that bid while the
\* new auction was open: the bid that became the fee of the new license was
\* submitted after the previous auction of the patent had been finalized, that
\* is, its ciphertext is newer than the ciphertexts of the license the previous
\* auction awarded.
C26_WinnerBidInNewWindow ==
    \A j \in LicenseIds : \A k \in LicenseIds :
        AwardedAfter(j, k)
        => licenses[k].encryptedLicenseFee > licenses[j].encryptedTerritoryMask

----------------------------------------------------------------------------
(* Exclusivity *)

\* the licenses of patent p that are Active and exclusive
ActiveExclusive(p) ==
    {l \in Created : /\ licenses[l].patentId = p
                     /\ licenses[l].status = "Active"
                     /\ licenses[l].isExclusive}

\* C27: a patent has at most one license that is both Active and exclusive.
C27_OneActiveExclusive ==
    \A p \in PatentIds : Cardinality(ActiveExclusive(p)) <= 1

----------------------------------------------------------------------------
(* SpecExpiry: the ledger over years.  alice registers a patent valid for  *)
(* one year and auctions it; bob requests 60-day licenses and pays; carol  *)
(* bids; the clock advances a year at a time.                              *)

ExpRegisterPatent ==
    /\ nextPatentId \in AuctionPatents
    /\ registerPatent("alice", 500, 100, 30, 1, "QmHash", 1, TRUE)

ExpRequestLicense ==
    \E p \in AuctionPatents :
        /\ nextLicenseId <= MaxLicenses
        /\ requestLicense("bob", p, 150, 500, 0, 60, FALSE, FALSE, 1)

ExpApproveLicense ==
    \E l \in KnownLicenseIds : approveLicense("alice", l, 60)

ExpPayRoyalties ==
    \E l \in KnownLicenseIds :
        /\ Len(royaltyPayments[l]) < MaxPayments
        /\ payRoyalties("bob", l, 2000, 1, 100, TRUE)

ExpStartConfidentialBidding ==
    \E p \in AuctionPatents :
        /\ p < nextPatentId
        /\ startConfidentialBidding("alice", p, 1)

ExpSubmitConfidentialBid ==
    \E p \in AuctionPatents :
        /\ isFirstBid("carol", p)
        /\ submitConfidentialBid("carol", p, 50)

ExpFinalizeBidding ==
    \E p \in AuctionPatents :
        /\ nextLicenseId <= MaxLicenses
        /\ finalizeBidding("alice", p)

ExpClock == now + Year <= Day + MaxExpYears * Year /\ Tick(Year)

NextExpiry ==
    \/ ExpRegisterPatent
    \/ ExpRequestLicense
    \/ ExpApproveLicense
    \/ ExpPayRoyalties
    \/ ExpStartConfidentialBidding
    \/ ExpSubmitConfidentialBid
    \/ ExpFinalizeBidding
    \/ ExpClock

SpecExpiry == Init /\ [][NextExpiry]_vars

----------------------------------------------------------------------------
(* Expiry *)

\* C28: a step that creates a license, by a request or by the award of an
\* auction, is taken before the expiration time of the license's patent; and a
\* royalty payment is accepted no later than the end time of its license.
C28_NothingAfterExpiry ==
    [][/\ nextLicenseId' # nextLicenseId
          => now < patents[licenses'[nextLicenseId].patentId].expirationTime
       /\ \A l \in LicenseIds :
             Accepted("payRoyalties", l) => now <= licenses[l].endTime]_vars

----------------------------------------------------------------------------
(* SpecWord: royalty verification at the edge of the machine word.  bob    *)
(* reports revenues up to the largest one the word holds, at a rate of     *)
(* 500, and the Gateway delivers every callback.                           *)

\* reported revenues: an everyday one, the largest whose product with the
\* rate fits the word, the next one, and the largest of the word
RevenueCases == {2000, UintMax \div 500, UintMax \div 500 + 1, UintMax}

WordRegisterPatent ==
    /\ nextPatentId = 1
    /\ registerPatent("alice", 500, 100, 30, 5, "QmHash", 1, FALSE)

WordRequestLicense ==
    /\ nextLicenseId \in VerLicenses
    /\ requestLicense("bob", 1, 150, 500, 0, 60, FALSE, FALSE, 1)

WordApproveLicense == \E l \in VerLicenses : approveLicense("alice", l, 60)

WordPayRoyalties ==
    \E l \in VerLicenses, revenue \in RevenueCases :
        /\ Len(royaltyPayments[l]) < MaxPayments
        /\ payRoyalties("bob", l, revenue, 1, 100, TRUE)

WordRequestRoyaltyVerification ==
    \E l \in VerLicenses, i \in 0 .. (MaxPayments - 1) :
        /\ Len(requests) < MaxVerRequests
        /\ requestRoyaltyVerification("alice", l, i)

WordGatewayCallback == \E r \in 1 .. MaxVerRequests : fulfillDecryption(r)

NextWord ==
    \/ WordRegisterPatent
    \/ WordRequestLicense
    \/ WordApproveLicense
    \/ WordPayRoyalties
    \/ WordRequestRoyaltyVerification
    \/ WordGatewayCallback

SpecWord == Init /\ [][NextWord]_vars

----------------------------------------------------------------------------
(* Arithmetic of the callback *)

\* (revenue * rate) / 10000 over the integers, computed without a product
\* larger than revenue itself times the rate's quotient
ExactExpected(revenue, rate) ==
    (revenue \div 10000) * rate + ((revenue % 10000) * rate) \div 10000

\* the decision of the callback over the integers
ExactIsValid(revenue, rate, paidAmount) ==
    paidAmount >= (ExactExpected(revenue, rate) * 95) \div 100

\* C29: every callback the Gateway delivers reaches a decision: the products
\* revenue * rate and expected * 95 fit the machine word for every triple of
\* plaintexts, so that the call does not abort, and the decision is the one
\* computed over the integers.
C29_CallbackArithmetic ==
    [][\A r \in 1 .. Len(requests) :
         (/\ last'.op = "processRoyaltyVerification" /\ last'.sender = Gateway
          /\ last'.id = r)
         => LET revenue == plain[requests[r].cts[1]]
                rate == plain[requests[r].cts[2]]
                paid == plain[requests[r].cts[3]]
            IN  /\ last'.err = OK
                /\ isValid(revenue, rate, paid) = ExactIsValid(revenue, rate, paid)]_vars

----------------------------------------------------------------------------
(* getPatentInfo *)

\* the view function carries the validPatent modifier
getPatentInfoError(patentId) == validPatent(patentId)

\* the tuple it returns: the plain fields of the patent
getPatentInfoReturn(patentId) ==
    <<patents[patentId].patentOwner, patents[patentId].registrationTime,
      patents[patentId].expirationTime, patents[patentId].status,
      patents[patentId].isConfidential, patents[patentId].patentHash,
      patents[patentId].territoryCode>>

\* a view call: it changes nothing; its outcome and result are recorded
getPatentInfo(sender, patentId) ==
    LET err == getPatentInfoError(patentId)
    IN  IF err # OK THEN Revert("getPatentInfo", sender, patentId, err)
        ELSE /\ last' = [op |-> "getPatentInfo", sender |-> sender, id |-> patentId,
                         err |-> OK, ret |-> getPatentInfoReturn(patentId)]
             /\ UNCHANGED <<ledger, now>>

----------------------------------------------------------------------------
(* SpecQuery: reading patents.  alice registers a patent and moves it      *)
(* through its statuses; everybody reads, by ids registered or not.        *)

QryRegisterPatent ==
    \E years \in {5, 20}, conf \in BOOLEAN :
        /\ nextPatentId <= MaxPatents
        /\ registerPatent("alice", 500, 100, 30, years, "QmHash", 1, conf)

QryUpdatePatentStatus ==
    \E s \in {"alice", "bob"}, p \in KnownPatentIds,
       st \in {"Active", "Suspended", "Expired"} :
        updatePatentStatus(s, p, st)

QryGetPatentInfo ==
    \E s \in Users \cup {Deployer}, p \in KnownPatentIds : getPatentInfo(s, p)

NextQuery ==
    \/ QryRegisterPatent
    \/ QryUpdatePatentStatus
    \/ QryGetPatentInfo

SpecQuery == Init /\ [][NextQuery]_vars

----------------------------------------------------------------------------
(* Reading a patent *)

\* C30: getPatentInfo, for every caller, returns the plain fields of a
\* registered patent whatever its status, and fails for an id that was never
\* registered; it fails in no other case.
C30_GetPatent ==
    [][\A p \in PatentIds :
         Called("getPatentInfo", p)
         => IF p \in Registered
            THEN /\ last'.err = OK
                 /\ last'.ret = <<patents[p].patentOwner, patents[p].registrationTime,
                                  patents[p].expirationTime, patents[p].status,
                                  patents[p].isConfidential, patents[p].patentHash,
                                  patents[p].territoryCode>>
            ELSE last'.err # OK]_vars

====
